---------------------------- MODULE Spec2Model ----------------------------
(***************************************************************************)
(* A model of the gofpdf document generator (src/fpdf.go).                 *)
(*                                                                         *)
(* The variable f is the Fpdf struct, one record field per struct field.   *)
(* The document is the one built by New("P", "pt", "A4", "."), so the      *)
(* scale factor k is 1; every length is an integer number of thousandths   *)
(* of a point, which makes the constants of New exact.                     *)
(*                                                                         *)
(* Buffers (f.buffer, f.pages[n]) are sequences of lines, one record per   *)
(* call of out().  A line is [op, n, s, t, d]: the operator, its numeric   *)
(* operands, its string operand, its text (a sequence of characters) and   *)
(* the parts or, for a stream, the lines it carries.                       *)
(*                                                                         *)
(* Go runs a handler, and the header/footer closures it calls, to          *)
(* completion before the caller continues, so one action is one call of a  *)
(* public method by the application.  A closure is a script: the sequence  *)
(* of public calls it makes.                                               *)
(*                                                                         *)
(* sink is the io.Writer given to Output: the deliveries it has received.  *)
(* hist is a history variable; no operator of the program reads it, but   *)
(* for the line-breaking loops, which stop after the MaxIter passes that   *)
(* the history counts.                                                     *)
(* app is the application: the number of calls it makes, the image files,  *)
(* fonts and font sizes it uses, the image files it wrote to the disk, and *)
(* the text, the cell width and the border it passes to the text layout    *)
(* methods.                                                                *)
(*                                                                         *)
(* A local variable of a method is bound by With: With([x \in {e} |-> b])  *)
(* is b with x standing for the value of e, so a method reads top down in  *)
(* the order of its statements.                                            *)
(***************************************************************************)
EXTENDS Integers, Sequences, FiniteSets, TLC

VARIABLES f, sink, hist, app

vars == <<f, sink, hist, app>>

-----------------------------------------------------------------------------
(* Bounds of the model.                                                    *)

\* public calls made by the application
MaxCalls == 3
\* closure invocations the model follows inside one another
MaxNest == 2
\* public calls made by an application that places links
MaxLinkCalls == 5
\* characters of the text an application lays out
MaxLen == 3
\* passes of a line-breaking loop the model follows
MaxIter == 40

-----------------------------------------------------------------------------
(* Constants of New(), in thousandths of a point (k = 1).                  *)

Margin == 28350
LineWidth0 == 567
FontSizePt0 == 12000
A4wd == 595280
A4ht == 841890
A5wd == 420940
A5ht == 595280

Nil == "nil"

SizeA4 == [wd |-> A4wd, ht |-> A4ht]
SizeA5 == [wd |-> A5wd, ht |-> A5ht]

-----------------------------------------------------------------------------
(* Generic helpers.                                                        *)

\* a line of a buffer
Tk(op, n, s) == [op |-> op, n |-> n, s |-> s, t |-> <<>>, d |-> <<>>]

\* the keys of a Go map in the order a range statement visits them: Go
\* leaves the order open; ord chooses ascending or descending rank, and
\* rank maps each key to its rank
RECURSIVE SortBy(_, _, _)
SortBy(S, rank, ord) ==
    IF S = {} THEN <<>>
    ELSE LET pick == IF ord = "asc"
                     THEN CHOOSE e \in S : \A o \in S : rank[e] <= rank[o]
                     ELSE CHOOSE e \in S : \A o \in S : rank[e] >= rank[o]
         IN  <<pick>> \o SortBy(S \ {pick}, rank, ord)

MapOrders == {"asc", "desc"}

\* a local variable: With([x \in {e} |-> b]) is b with x standing for the
\* value of e
With(fn) == fn[CHOOSE v \in DOMAIN fn : TRUE]

-----------------------------------------------------------------------------
(* strings.ToLower, strings.ToUpper, strings.Contains and strings.Replace  *)
(* on the family and style strings the model passes.                       *)

ToLower(s) ==
    CASE s = "Arial" -> "arial"
      [] s = "Helvetica" -> "helvetica"
      [] s = "Courier" -> "courier"
      [] s = "B" -> "b"
      [] s = "U" -> "u"
      [] s = "BU" -> "bu"
      [] OTHER -> s

ToUpper(s) ==
    CASE s = "b" -> "B"
      [] s = "u" -> "U"
      [] s = "bu" -> "BU"
      [] s = "p" -> "P"
      [] s = "l" -> "L"
      [] OTHER -> s

ContainsU(s) == s \in {"U", "BU", "u", "bu"}

RemoveU(s) ==
    CASE s = "U" -> ""
      [] s = "BU" -> "B"
      [] OTHER -> s

-----------------------------------------------------------------------------
(* The files the program reads.                                            *)

\* font definition files of the font directory: loadfont's json.Unmarshal
FontDefFiles ==
    [f0 \in {"helvetica.json", "helveticab.json", "courier.json", "calligra.json", "ghost.json",
              "euro.json"} |->
        CASE f0 = "helvetica.json" ->
               [Tp |-> "Core", Name |-> "Helvetica", File |-> "", Diff |-> "",
                OriginalSize |-> 0, Size1 |-> 0, Size2 |-> 0]
          [] f0 = "helveticab.json" ->
               [Tp |-> "Core", Name |-> "Helvetica-Bold", File |-> "", Diff |-> "",
                OriginalSize |-> 0, Size1 |-> 0, Size2 |-> 0]
          [] f0 = "courier.json" ->
               [Tp |-> "Core", Name |-> "Courier", File |-> "", Diff |-> "",
                OriginalSize |-> 0, Size1 |-> 0, Size2 |-> 0]
          [] f0 = "calligra.json" ->
               [Tp |-> "TrueType", Name |-> "Calligrapher", File |-> "calligra.z", Diff |-> "",
                OriginalSize |-> 40120, Size1 |-> 0, Size2 |-> 0]
          [] f0 = "ghost.json" ->
               [Tp |-> "TrueType", Name |-> "Ghost", File |-> "ghost.ttf", Diff |-> "",
                OriginalSize |-> 1200, Size1 |-> 0, Size2 |-> 0]
          [] f0 = "euro.json" ->
               [Tp |-> "TrueType", Name |-> "Euro", File |-> "", Diff |-> "128 /Euro",
                OriginalSize |-> 0, Size1 |-> 0, Size2 |-> 0] ]

\* font files of the font directory that ioutil.ReadFile can read
FontFilesOnDisk == {"calligra.z"}

\* width of a character in thousandths of the font size (fontDefType.Cw)
cw(font, c) ==
    IF font.Name = "" THEN 0
    ELSE IF font.Name = "Courier" THEN 600
    ELSE IF c = " " THEN 278
    ELSE 556

-----------------------------------------------------------------------------
(* The Fpdf struct after New("P", "pt", "A4", ".").                        *)

EmptyMap == [x \in {} |-> 0]

\* a header or footer closure; nil before SetHeaderFunc / SetFooterFunc
NilFnc == [set |-> FALSE, body |-> <<>>]

\* the zero value of fontDefType
ZeroFont ==
    [Tp |-> "", Name |-> "", File |-> "", Diff |-> "", OriginalSize |-> 0,
     Size1 |-> 0, Size2 |-> 0, I |-> 0, N |-> 0, DiffN |-> 0]

\* word spacing is the exact value num * mul / den of MultiCell's expression
ZeroWs == [num |-> 0, den |-> 1, mul |-> 1]

New ==
    [ page |-> 0, n |-> 2, offsets |-> <<>>, buffer |-> <<>>, pages |-> <<>>,
      pageSizes |-> EmptyMap, state |-> 0,
      fonts |-> EmptyMap, fontFiles |-> EmptyMap, diffs |-> <<>>,
      images |-> EmptyMap, pageLinks |-> (0 :> <<>>), links |-> <<>>,
      inHeader |-> FALSE, inFooter |-> FALSE, lasth |-> 0,
      fontFamily |-> "", fontStyle |-> "", fontSizePt |-> FontSizePt0,
      fontSize |-> 0, currentFont |-> ZeroFont, underline |-> FALSE,
      drawColor |-> "0 G", fillColor |-> "0 g", textColor |-> "0 g",
      colorFlag |-> FALSE, ws |-> ZeroWs,
      defPageSize |-> SizeA4, curPageSize |-> SizeA4,
      defOrientation |-> "P", curOrientation |-> "P",
      w |-> A4wd, h |-> A4ht, wPt |-> A4wd, hPt |-> A4ht,
      lMargin |-> Margin, tMargin |-> Margin, rMargin |-> Margin,
      cMargin |-> Margin \div 10, lineWidth |-> LineWidth0,
      autoPageBreak |-> TRUE, bMargin |-> 2 * Margin,
      pageBreakTrigger |-> A4ht - 2 * Margin,
      acceptPageBreak |-> "auto",
      zoomMode |-> "default", layoutMode |-> "default",
      compress |-> TRUE, pdfVersion |-> "1.3", capStyle |-> 0,
      aliasNbPagesStr |-> "", x |-> 0, y |-> 0,
      headerFnc |-> NilFnc, footerFnc |-> NilFnc,
      err |-> Nil,
      \* not fields: whether a run-time panic has ended the program, and
      \* the values assigned to f.err so far, in order
      panicked |-> FALSE, errs |-> <<>> ]

\* the assignment f.err = e
AssignErr(g, e) == [g EXCEPT !.err = e, !.errs = Append(@, e)]

-----------------------------------------------------------------------------
(* Methods that call no closure: each maps the struct to the struct.       *)

\* SetErrorf
SetErrorf(g, msg) ==
    IF g.err = Nil THEN AssignErr(g, msg) ELSE g

\* SetError; e is Nil for a nil error
SetError(g, e) ==
    IF g.err = Nil /\ e # Nil THEN AssignErr(g, e) ELSE g

SetHeaderFunc(g, fnc) == [g EXCEPT !.headerFnc = fnc]

SetFooterFunc(g, fnc) == [g EXCEPT !.footerFnc = fnc]

SetAutoPageBreak(g, auto, margin) ==
    [g EXCEPT !.autoPageBreak = auto, !.bMargin = margin,
              !.pageBreakTrigger = g.h - margin]

SetAcceptPageBreakFunc(g, fnc) == [g EXCEPT !.acceptPageBreak = fnc]

\* the call f.acceptPageBreak(): the closure of New returns f.autoPageBreak
acceptPageBreak(g) ==
    CASE g.acceptPageBreak = "auto" -> g.autoPageBreak
      [] g.acceptPageBreak = "always" -> TRUE
      [] OTHER -> FALSE

AliasNbPages(g, aliasStr) ==
    [g EXCEPT !.aliasNbPagesStr = IF aliasStr = "" THEN "{nb}" ELSE aliasStr]

open(g) == [g EXCEPT !.state = 1]

endpage(g) == [g EXCEPT !.state = 1]

\* an output that puts every line of a page on the first page
outOnFirstPage(g, line) ==
    IF g.state = 2
    THEN [g EXCEPT !.pages[1] = Append(@, line)]
    ELSE [g EXCEPT !.buffer = Append(@, line)]

\* out: the line goes to the current page while a page is active, and to
\* the document buffer in every other state
out(g, line) ==
    IF g.state = 2
    THEN [g EXCEPT !.pages[g.page] = Append(@, line)]
    ELSE [g EXCEPT !.buffer = Append(@, line)]

\* sprintf("%.3f", float64(c) / 255.0)
Frac3(c) ==
    CASE c = 0 -> "0.000"
      [] c = 255 -> "1.000"
      [] OTHER -> "0.502"

colorString(r, g, b, grayStr, fullStr) ==
    IF r = g /\ r = b
    THEN Frac3(r) \o " " \o grayStr
    ELSE Frac3(r) \o " " \o Frac3(g) \o " " \o Frac3(b) \o " " \o fullStr

SetDrawColor(g, r, gr, b) ==
    With([g1 \in {[g EXCEPT !.drawColor = colorString(r, gr, b, "G", "RG")]} |->
        IF g1.page > 0 THEN out(g1, Tk("color", <<>>, g1.drawColor)) ELSE g1])

SetFillColor(g, r, gr, b) ==
    With([fc \in {colorString(r, gr, b, "g", "rg")} |->
        With([g1 \in {[g EXCEPT !.fillColor = fc, !.colorFlag = (fc # g.textColor)]} |->
        IF g1.page > 0 THEN out(g1, Tk("color", <<>>, g1.fillColor)) ELSE g1])])

SetTextColor(g, r, gr, b) ==
    With([tc \in {colorString(r, gr, b, "g", "rg")} |->
        [g EXCEPT !.textColor = tc, !.colorFlag = (g.fillColor # tc)]])

SetLineWidth(g, width) ==
    With([g1 \in {[g EXCEPT !.lineWidth = width]} |->
        IF g1.page > 0 THEN out(g1, Tk("w", <<width>>, "")) ELSE g1])

Line(g, x1, y1, x2, y2) ==
    out(g, Tk("m l S", <<x1, g.h - y1, x2, g.h - y2>>, ""))

Rect(g, x, y, w, h, styleStr) ==
    out(g, Tk("re", <<x, g.h - y, w, -h>>, styleStr))

\* Text; the underline rectangle and the colour wrapper are part of the
\* one line Text writes
Text(g, x, y, txtStr) ==
    out(g, [op |-> "BT Td Tj ET", n |-> <<x, g.h - y>>, s |-> "", t |-> txtStr,
            d |-> (IF g.underline /\ txtStr # <<>> THEN <<Tk("re f", <<x, y>>, "")>> ELSE <<>>)
                  \o (IF g.colorFlag THEN <<Tk("q Q", <<>>, g.textColor)>> ELSE <<>>)])

Ln(g, h) ==
    [g EXCEPT !.x = g.lMargin, !.y = IF h < 0 THEN g.y + g.lasth ELSE g.y + h]

SetX(g, x) == [g EXCEPT !.x = IF x >= 0 THEN x ELSE g.w + x]

SetY(g, y) == [g EXCEPT !.x = g.lMargin, !.y = IF y >= 0 THEN y ELSE g.h + y]

SetXY(g, x, y) == SetX(SetY(g, y), x)

\* AddLink: the new link's identifier is the new length of the table
AddLink(g) == [g EXCEPT !.links = Append(@, [page |-> 0, y |-> 0])]

-----------------------------------------------------------------------------
(* Fonts and links.                                                        *)

\* loadfont: reads and unmarshals a font definition file; returns the
\* struct and the definition
loadfont(g, fontStr) ==
    IF g.err # Nil THEN <<g, ZeroFont>>
    ELSE IF fontStr \notin DOMAIN FontDefFiles
         THEN <<AssignErr(g, "open " \o fontStr \o ": no such file"), ZeroFont>>
         ELSE <<g, [ZeroFont EXCEPT !.Tp = FontDefFiles[fontStr].Tp,
                                    !.Name = FontDefFiles[fontStr].Name,
                                    !.File = FontDefFiles[fontStr].File,
                                    !.Diff = FontDefFiles[fontStr].Diff,
                                    !.OriginalSize = FontDefFiles[fontStr].OriginalSize,
                                    !.Size1 = FontDefFiles[fontStr].Size1,
                                    !.Size2 = FontDefFiles[fontStr].Size2]>>

\* the index AddFont's search of f.diffs leaves in n: the 0-based index of
\* the first equal string, or -1
DiffSearch(diffs, diff) ==
    IF \E j \in 1..Len(diffs) : diffs[j] = diff
    THEN (CHOOSE j \in 1..Len(diffs) :
              diffs[j] = diff /\ \A i \in 1..(j - 1) : diffs[i] # diff) - 1
    ELSE -1

AddFont(g, familyStr0, styleStr0, fileStr0) ==
    IF g.err # Nil THEN g
    ELSE
    With([familyStr \in {ToLower(familyStr0)} |->
        With([fileStr \in {IF fileStr0 = ""
                          THEN familyStr \o ToLower(styleStr0) \o ".json"
                          ELSE fileStr0} |->
        With([styleStr \in {IF ToUpper(styleStr0) = "IB" THEN "BI" ELSE ToUpper(styleStr0)} |->
        With([fontkey \in {familyStr \o styleStr} |->
        IF fontkey \in DOMAIN g.fonts THEN g
        ELSE
        With([ld \in {loadfont(g, fileStr)} |->
            With([g1 \in {ld[1]} |->
            With([info \in {[ld[2] EXCEPT !.I = Cardinality(DOMAIN g.fonts) + 1]} |->
            IF g1.err # Nil THEN g1
            ELSE
            With([found \in {DiffSearch(g1.diffs, info.Diff)} |->
                \* f.diffs[n] = info.Diff with n = len(f.diffs) + 1 indexes
                \* past the end of the slice: a run-time panic
                With([panics \in {info.Diff # "" /\ found < 0} |->
                With([info2 \in {IF info.Diff # "" THEN [info EXCEPT !.DiffN = found] ELSE info} |->
                With([files \in {IF info2.File # ""
                                THEN IF info2.Tp = "TrueType"
                                     THEN (info2.File :> [length1 |-> info2.OriginalSize, length2 |-> 0, n |-> 0])
                                          @@ g1.fontFiles
                                     ELSE (info2.File :> [length1 |-> info2.Size1, length2 |-> info2.Size2, n |-> 0])
                                          @@ g1.fontFiles
                                ELSE g1.fontFiles} |->
                IF panics THEN [g1 EXCEPT !.panicked = TRUE]
                ELSE [g1 EXCEPT !.fontFiles = files,
                                !.fonts = (fontkey :> info2) @@ g1.fonts]])])])])])])])])])])])

coreFonts == {"courier", "helvetica", "times", "symbol", "zapfdingbats"}

\* the line SetFont and SetFontSize write for the selected font
FontLine(g) == Tk("BT Tf ET", <<g.currentFont.I, g.fontSizePt>>, "")

SetFont(g, familyStr0, styleStr0, size0) ==
    IF g.err # Nil THEN g
    ELSE
    With([familyStr \in {IF familyStr0 = "" THEN g.fontFamily ELSE ToLower(familyStr0)} |->
        With([up \in {ToUpper(styleStr0)} |->
        With([g1 \in {[g EXCEPT !.underline = ContainsU(up)]} |->
        With([st1 \in {IF g1.underline THEN RemoveU(up) ELSE up} |->
        With([styleStr \in {IF st1 = "IB" THEN "BI" ELSE st1} |->
        With([size \in {IF size0 = 0 THEN g.fontSizePt ELSE size0} |->
        IF g1.fontFamily = familyStr /\ g1.fontStyle = styleStr /\ g1.fontSizePt = size
        THEN g1
        ELSE
        With([loaded \in {(familyStr \o styleStr) \in DOMAIN g1.fonts} |->
            With([fam2 \in {IF loaded THEN familyStr
                           ELSE IF familyStr = "arial" THEN "helvetica" ELSE familyStr} |->
            With([core \in {fam2 \in coreFonts} |->
            With([sty2 \in {IF ~loaded /\ core /\ fam2 \in {"symbol", "zapfdingbats"}
                           THEN "" ELSE styleStr} |->
            With([fontkey \in {fam2 \o sty2} |->
            With([g2 \in {IF loaded THEN g1
                         ELSE IF core
                              THEN IF fontkey \in DOMAIN g1.fonts THEN g1
                                   ELSE AddFont(g1, fam2, sty2, "")
                              ELSE AssignErr(g1, "Undefined font: " \o fam2 \o " " \o styleStr)} |->
            IF g2.err # Nil \/ g2.panicked THEN g2
            ELSE
            With([g3 \in {[g2 EXCEPT !.fontFamily = fam2, !.fontStyle = sty2,
                                    !.fontSizePt = size, !.fontSize = size,
                                    !.currentFont = g2.fonts[fontkey]]} |->
                IF g3.page > 0 THEN out(g3, FontLine(g3)) ELSE g3])])])])])])])])])])])])])

SetFontSize(g, size) ==
    IF g.fontSizePt = size THEN g
    ELSE With([g1 \in {[g EXCEPT !.fontSizePt = size, !.fontSize = size]} |->
             IF g1.page > 0 THEN out(g1, FontLine(g1)) ELSE g1])

\* the sum of the widths of the characters of s, in thousandths of the
\* font size
RECURSIVE SumCw(_, _)
SumCw(font, s) ==
    IF s = <<>> THEN 0 ELSE cw(font, Head(s)) + SumCw(font, Tail(s))

GetStringWidth(g, s) == (SumCw(g.currentFont, s) * g.fontSize) \div 1000

\* SetLink: indexing f.links past its end is a run-time panic
SetLink(g, link, y0, page0) ==
    With([y \in {IF y0 = -1 THEN g.y ELSE y0} |->
        With([page \in {IF page0 = -1 THEN g.page ELSE page0} |->
        IF link = 0 THEN g
        ELSE IF link \notin 1..Len(g.links) THEN [g EXCEPT !.panicked = TRUE]
        ELSE [g EXCEPT !.links[link] = [page |-> page, y |-> y]]])])

newLink(g, x, y, w, h, link, linkStr) ==
    [g EXCEPT !.pageLinks[g.page] =
        Append(@, [x |-> x, y |-> g.hPt - y, wd |-> w, ht |-> h,
                   link |-> link, linkStr |-> linkStr])]

Link(g, x, y, w, h, link) == newLink(g, x, y, w, h, link, "")

LinkString(g, x, y, w, h, linkStr) == newLink(g, x, y, w, h, 0, linkStr)

-----------------------------------------------------------------------------
(* Pages.                                                                  *)

\* strings.ToUpper(orientationStr[0:1])
FirstUpper(s) ==
    CASE s \in {"P", "p", "portrait", "Portrait"} -> "P"
      [] s \in {"L", "l", "landscape", "Landscape"} -> "L"
      [] OTHER -> s

beginpage(g, orientationStr0, size) ==
    IF g.err # Nil THEN g
    ELSE
    With([g1 \in {[g EXCEPT !.page = g.page + 1,
                           !.pages = Append(@, <<>>),
                           !.pageLinks = (g.page + 1 :> <<>>) @@ @,
                           !.state = 2, !.x = g.lMargin, !.y = g.tMargin,
                           !.fontFamily = ""]} |->
        With([orientationStr \in {IF orientationStr0 = "" THEN g.defOrientation
                                 ELSE FirstUpper(orientationStr0)} |->
        With([g2 \in {IF orientationStr # g1.curOrientation \/ size.wd # g1.curPageSize.wd
                        \/ size.ht # g1.curPageSize.ht
                     THEN With([nw \in {IF orientationStr = "P" THEN size.wd ELSE size.ht} |->
                              With([nh \in {IF orientationStr = "P" THEN size.ht ELSE size.wd} |->
                              [g1 EXCEPT !.w = nw, !.h = nh, !.wPt = nw, !.hPt = nh,
                                         !.pageBreakTrigger = nh - g1.bMargin,
                                         !.curOrientation = orientationStr,
                                         !.curPageSize = size]])])
                     ELSE g1} |->
        IF orientationStr # g2.defOrientation \/ size.wd # g2.defPageSize.wd
           \/ size.ht # g2.defPageSize.ht
        THEN [g2 EXCEPT !.pageSizes = (g2.page :> [wd |-> g2.wPt, ht |-> g2.hPt]) @@ @]
        ELSE g2])])])

-----------------------------------------------------------------------------
(* Calls.  A call is a record naming the method and its arguments; the     *)
(* application makes calls one at a time and a closure makes the calls of  *)
(* its script.                                                             *)

Call0 ==
    [op |-> "", fam |-> "", style |-> "", size |-> 0, r |-> 0, g |-> 0, b |-> 0,
     width |-> 0, x |-> 0, y |-> 0, w |-> 0, h |-> 0, txt |-> <<>>, border |-> "",
     ln |-> 0, align |-> "", fill |-> FALSE, link |-> 0, linkStr |-> "",
     file |-> "", flow |-> FALSE, tp |-> "", e |-> Nil]

CSetFont(fam, style, size) ==
    [Call0 EXCEPT !.op = "SetFont", !.fam = fam, !.style = style, !.size = size]
CSetFontSize(size) == [Call0 EXCEPT !.op = "SetFontSize", !.size = size]
CSetDrawColor(r, g, b) == [Call0 EXCEPT !.op = "SetDrawColor", !.r = r, !.g = g, !.b = b]
CSetFillColor(r, g, b) == [Call0 EXCEPT !.op = "SetFillColor", !.r = r, !.g = g, !.b = b]
CSetTextColor(r, g, b) == [Call0 EXCEPT !.op = "SetTextColor", !.r = r, !.g = g, !.b = b]
CSetLineWidth(width) == [Call0 EXCEPT !.op = "SetLineWidth", !.width = width]
CSetY(y) == [Call0 EXCEPT !.op = "SetY", !.y = y]
CLn(h) == [Call0 EXCEPT !.op = "Ln", !.h = h]
CLine(x, y, w, h) == [Call0 EXCEPT !.op = "Line", !.x = x, !.y = y, !.w = w, !.h = h]
CText(x, y, txt) == [Call0 EXCEPT !.op = "Text", !.x = x, !.y = y, !.txt = txt]
CSetError(e) == [Call0 EXCEPT !.op = "SetError", !.e = e]
CCellFormat(w, h, txt, border, ln, align, fill, link, linkStr) ==
    [Call0 EXCEPT !.op = "CellFormat", !.w = w, !.h = h, !.txt = txt, !.border = border,
                  !.ln = ln, !.align = align, !.fill = fill, !.link = link,
                  !.linkStr = linkStr]
CMultiCell(w, h, txt, border, align, fill) ==
    [Call0 EXCEPT !.op = "MultiCell", !.w = w, !.h = h, !.txt = txt, !.border = border,
                  !.align = align, !.fill = fill]
CImage(file, x, y, w, h, flow, tp, link, linkStr) ==
    [Call0 EXCEPT !.op = "Image", !.file = file, !.x = x, !.y = y, !.w = w, !.h = h,
                  !.flow = flow, !.tp = tp, !.link = link, !.linkStr = linkStr]

-----------------------------------------------------------------------------
(* The history variable.  log lists the closure invocations, the page      *)
(* creations and the end of the document in the order they happened; depth *)
(* counts the closures that are executing; op is the latest call of the    *)
(* application; apfs, cells and imgs describe the AddPageFormat,           *)
(* CellFormat and Image calls that this latest call made and that got past *)
(* their error check; lines lists the lines MultiCell and write handed to  *)
(* CellFormat during this call and loops the values of i and j at the head *)
(* of each pass of their loops.                                            *)

Gfx(g) ==
    [lineWidth |-> g.lineWidth, drawColor |-> g.drawColor, fillColor |-> g.fillColor,
     textColor |-> g.textColor, colorFlag |-> g.colorFlag,
     fontFamily |-> g.fontFamily, fontStyle |-> g.fontStyle,
     underline |-> g.underline, fontSizePt |-> g.fontSizePt]

Hist0 ==
    [calls |-> 0, depth |-> 0, log |-> <<>>, apfs |-> <<>>, cells |-> <<>>,
     imgs |-> <<>>, lines |-> <<>>, loops |-> <<>>, moves |-> <<>>, op |-> "New"]

Ev(m, ev) ==
    [m EXCEPT !.hist.log =
        Append(@, [ev |-> ev, page |-> m.f.page, depth |-> m.hist.depth])]

CurLen(g) == IF g.state = 2 THEN Len(g.pages[g.page]) ELSE Len(g.buffer)

-----------------------------------------------------------------------------
(* Methods that may call a closure map the pair [f, hist] to the pair.     *)

RECURSIVE RunScript(_, _)
RECURSIVE Exec(_, _)
RECURSIVE AddPageFormat(_, _, _)
RECURSIVE CellFormat(_, _)
RECURSIVE MultiCellLoop(_, _)
RECURSIVE Image(_, _)

\* the body of a closure: its calls in order
RunScript(m, body) ==
    IF body = <<>> THEN m ELSE RunScript(Exec(m, Head(body)), Tail(body))

\* f.inFooter = true; f.footerFnc(); f.inFooter = false, when footerFnc is
\* not nil
CallFooter(m) ==
    IF ~m.f.footerFnc.set THEN m
    ELSE With([m1 \in {Ev([m EXCEPT !.f.inFooter = TRUE], "footer")} |->
             With([m2 \in {[m1 EXCEPT !.hist.depth = @ + 1]} |->
             With([m3 \in {IF m2.hist.depth > MaxNest THEN m2
                          ELSE RunScript(m2, m.f.footerFnc.body)} |->
             With([m4 \in {[m3 EXCEPT !.hist.depth = @ - 1]} |->
             [Ev(m4, "footer end") EXCEPT !.f.inFooter = FALSE]])])])])

\* f.inHeader = true; f.headerFnc(); f.inHeader = false, when headerFnc is
\* not nil
CallHeader(m) ==
    IF ~m.f.headerFnc.set THEN m
    ELSE With([m1 \in {Ev([m EXCEPT !.f.inHeader = TRUE], "header")} |->
             With([m2 \in {[m1 EXCEPT !.hist.depth = @ + 1]} |->
             With([m3 \in {IF m2.hist.depth > MaxNest THEN m2
                          ELSE RunScript(m2, m.f.headerFnc.body)} |->
             With([m4 \in {[m3 EXCEPT !.hist.depth = @ - 1]} |->
             [Ev(m4, "header end") EXCEPT !.f.inHeader = FALSE]])])])])

\* AddPageFormat: the values saved on entry
ApfSave(g) ==
    [familyStr |-> g.fontFamily,
     style |-> g.fontStyle \o (IF g.underline THEN "U" ELSE ""),
     fontsize |-> g.fontSizePt, lw |-> g.lineWidth, dc |-> g.drawColor,
     fc |-> g.fillColor, tc |-> g.textColor, cf |-> g.colorFlag]

\* AddPageFormat from "Start new page" to the colours set before the
\* header; ret tells that the method returned on a font error
ApfOpen(g, loc, orientationStr, size) ==
    With([g1 \in {beginpage(g, orientationStr, size)} |->
        With([g2 \in {out(g1, Tk("J", <<g1.capStyle>>, ""))} |->
        With([g3 \in {out([g2 EXCEPT !.lineWidth = loc.lw], Tk("w", <<loc.lw>>, ""))} |->
        With([g4 \in {IF loc.familyStr # ""
                     THEN SetFont(g3, loc.familyStr, loc.style, loc.fontsize)
                     ELSE g3} |->
        IF loc.familyStr # "" /\ g4.err # Nil THEN [g |-> g4, ret |-> TRUE]
        ELSE
        With([g5 \in {[g4 EXCEPT !.drawColor = loc.dc]} |->
            With([g6 \in {IF loc.dc # "0 G" THEN out(g5, Tk("color", <<>>, loc.dc)) ELSE g5} |->
            With([g7 \in {[g6 EXCEPT !.fillColor = loc.fc]} |->
            With([g8 \in {IF loc.fc # "0 g" THEN out(g7, Tk("color", <<>>, loc.fc)) ELSE g7} |->
            [g |-> [g8 EXCEPT !.textColor = loc.tc, !.colorFlag = loc.cf], ret |-> FALSE]])])])])])])])])

\* what the header left, kept
ApfNoRestore(g, loc) == g

\* AddPageFormat after the header: line width, font and colours restored
ApfRestore(g, loc) ==
    With([g1 \in {IF g.lineWidth # loc.lw
                 THEN out([g EXCEPT !.lineWidth = loc.lw], Tk("w", <<loc.lw>>, ""))
                 ELSE g} |->
        With([g2 \in {IF loc.familyStr # ""
                     THEN SetFont(g1, loc.familyStr, loc.style, loc.fontsize)
                     ELSE g1} |->
        IF loc.familyStr # "" /\ g2.err # Nil THEN g2
        ELSE
        With([g3 \in {IF g2.drawColor # loc.dc
                     THEN out([g2 EXCEPT !.drawColor = loc.dc], Tk("color", <<>>, loc.dc))
                     ELSE g2} |->
            With([g4 \in {IF g3.fillColor # loc.fc
                         THEN out([g3 EXCEPT !.fillColor = loc.fc], Tk("color", <<>>, loc.fc))
                         ELSE g3} |->
            [g4 EXCEPT !.textColor = loc.tc, !.colorFlag = loc.cf]])])])])

AddPageFormat(m, orientationStr, size) ==
    IF m.f.err # Nil THEN m
    ELSE
    With([g0 \in {IF m.f.state = 0 THEN open(m.f) ELSE m.f} |->
        With([loc \in {ApfSave(g0)} |->
        With([m1 \in {[m EXCEPT !.f = g0]} |->
        With([m2 \in {IF g0.page > 0
                     THEN With([mf \in {CallFooter(m1)} |-> [mf EXCEPT !.f = endpage(mf.f)]])
                     ELSE m1} |->
        With([opened \in {ApfOpen(m2.f, loc, orientationStr, size)} |->
        With([m3 \in {[m2 EXCEPT !.f = opened.g]} |->
        With([m4 \in {IF m3.f.page # m2.f.page THEN Ev(m3, "beginpage") ELSE m3} |->
        With([m5 \in {IF opened.ret THEN m4
                     ELSE With([mh \in {CallHeader(m4)} |->
                              [mh EXCEPT !.f = ApfRestore(mh.f, loc)]])} |->
        [m5 EXCEPT !.hist.apfs =
            Append(@, [pre |-> Gfx(m.f), post |-> Gfx(m5.f), err |-> m5.f.err,
                       page0 |-> m.f.page, page1 |-> m5.f.page,
                       o |-> orientationStr, size |-> size])]])])])])])])])])

AddPage(m) ==
    IF m.f.err # Nil THEN m
    ELSE AddPageFormat(m, m.f.defOrientation, m.f.defPageSize)


-----------------------------------------------------------------------------
(* Cells.                                                                  *)

\* ws > 0
WsPos(ws) == ws.den > 0 /\ ws.num > 0 /\ ws.mul > 0

\* the lines "0 Tw" and sprintf("%.3f Tw", ws * k)
TwZero == Tk("Tw", <<0, 1, 1>>, "0")
TwLine(ws) == Tk("Tw", <<ws.num, ws.den, ws.mul>>, "%.3f")

\* the three strings.Replace calls of CellFormat
RECURSIVE Escape(_)
Escape(s) ==
    IF s = <<>> THEN <<>>
    ELSE (IF Head(s) \in {"\\", "(", ")"} THEN <<"\\", Head(s)>> ELSE <<Head(s)>>)
         \o Escape(Tail(s))

\* a page break whatever closure is executing
CellFormatBreaksInCallback(g, h) ==
    g.y + h > g.pageBreakTrigger /\ acceptPageBreak(g)

\* the condition of CellFormat's automatic page break
CellFormatBreaks(g, h) ==
    g.y + h > g.pageBreakTrigger /\ ~g.inHeader /\ ~g.inFooter /\ acceptPageBreak(g)

\* the new page left as AddPageFormat returned it
CellFormatNoResume(g, x, ws) == g

\* CellFormat after the page break: f.x = x and, when ws > 0, f.ws = ws
\* and the line that sets the word spacing on the new page
CellFormatResume(g, x, ws) ==
    With([gx \in {[g EXCEPT !.x = x]} |->
        IF WsPos(ws) THEN out([gx EXCEPT !.ws = ws], TwLine(ws)) ELSE gx])

\* the border letters of borderStr in a set
Sides(borderStr) ==
    CASE borderStr = "" -> {}
      [] borderStr = "0" -> {"0"}
      [] borderStr = "1" -> {"1"}
      [] borderStr = "L" -> {"L"}
      [] borderStr = "LR" -> {"L", "R"}
      [] borderStr = "LRT" -> {"L", "R", "T"}
      [] borderStr = "LRB" -> {"L", "R", "B"}
      [] borderStr = "LRTB" -> {"L", "R", "T", "B"}
      [] borderStr = "LTRB" -> {"L", "R", "T", "B"}
      [] borderStr = "T" -> {"T"}
      [] borderStr = "B" -> {"B"}
      [] borderStr = "TB" -> {"T", "B"}
      [] borderStr = "R" -> {"R"}
      [] borderStr = "LT" -> {"L", "T"}
      [] borderStr = "RT" -> {"R", "T"}
      [] borderStr = "LB" -> {"L", "B"}
      [] borderStr = "RB" -> {"R", "B"}
      [] borderStr = "LTB" -> {"L", "T", "B"}
      [] borderStr = "RTB" -> {"R", "T", "B"}
      [] OTHER -> {}

\* CellFormat from "if w == 0" to its end: the cell is drawn at the current
\* position and the position advances
CellDraw(g, c, borderStr) ==
    With([w \in {IF c.w = 0 THEN g.w - g.rMargin - g.x ELSE c.w} |->
        With([h \in {c.h} |->
        With([rect \in {IF c.fill \/ borderStr = "1"
                       THEN <<Tk("re", <<g.x, g.h - g.y, w, -h>>,
                                 IF c.fill THEN (IF borderStr = "1" THEN "B" ELSE "f") ELSE "S")>>
                       ELSE <<>>} |->
        With([left \in {g.x} |->
        With([top \in {g.h - g.y} |->
        With([right \in {g.x + w} |->
        With([bottom \in {g.h - (g.y + h)} |->
        With([edges \in {IF borderStr # "" /\ borderStr # "1"
                        THEN (IF "L" \in Sides(borderStr)
                              THEN <<Tk("m l S", <<left, top, left, bottom>>, "L")>> ELSE <<>>)
                             \o (IF "T" \in Sides(borderStr)
                                 THEN <<Tk("m l S", <<left, top, right, top>>, "T")>> ELSE <<>>)
                             \o (IF "R" \in Sides(borderStr)
                                 THEN <<Tk("m l S", <<right, top, right, bottom>>, "R")>> ELSE <<>>)
                             \o (IF "B" \in Sides(borderStr)
                                 THEN <<Tk("m l S", <<left, bottom, right, bottom>>, "B")>> ELSE <<>>)
                        ELSE <<>>} |->
        With([sw \in {GetStringWidth(g, c.txt)} |->
        \* twice dx, so that the centred case stays exact
        With([dx2 \in {CASE c.align = "R" -> 2 * (w - g.cMargin - sw)
                        [] c.align = "C" -> w - sw
                        [] OTHER -> 2 * g.cMargin} |->
        \* ten times y + .5 h + .3 fontSize
        With([base10 \in {10 * g.y + 5 * h + 3 * g.fontSize} |->
        With([text \in {IF c.txt # <<>>
                       THEN <<[op |-> "BT Td Tj ET",
                               n |-> <<2 * g.x + dx2, 10 * g.h - base10>>,
                               s |-> (IF g.colorFlag THEN g.textColor ELSE ""),
                               t |-> Escape(c.txt),
                               d |-> (IF g.underline
                                      THEN <<Tk("re f", <<2 * g.x + dx2, base10>>, "")>>
                                      ELSE <<>>)]>>
                       ELSE <<>>} |->
        With([g1 \in {IF c.txt # <<>> /\ (c.link > 0 \/ c.linkStr # "")
                     THEN newLink(g, 2 * g.x + dx2, 10 * g.y + 5 * h - 5 * g.fontSize,
                                  sw, g.fontSize, c.link, c.linkStr)
                     ELSE g} |->
        With([parts \in {rect \o edges \o text} |->
        With([g2 \in {IF parts # <<>>
                     THEN out(g1, [op |-> "cell", n |-> <<>>, s |-> "", t |-> <<>>, d |-> parts])
                     ELSE g1} |->
        With([g3 \in {[g2 EXCEPT !.lasth = h]} |->
        IF c.ln > 0
        THEN [g3 EXCEPT !.y = g3.y + h, !.x = IF c.ln = 1 THEN g3.lMargin ELSE g3.x]
        ELSE [g3 EXCEPT !.x = g3.x + w]])])])])])])])])])])])])])])])])

CellFormat(m, c) ==
    IF m.f.err # Nil THEN m
    ELSE
    With([g \in {m.f} |->
        With([borderStr \in {ToUpper(c.border)} |->
        With([brk \in {CellFormatBreaks(g, c.h)} |->
        With([x \in {g.x} |->
        With([ws \in {g.ws} |->
        With([g1 \in {IF brk /\ WsPos(ws) THEN out([g EXCEPT !.ws = ZeroWs], TwZero) ELSE g} |->
        With([ma \in {IF brk
                     THEN AddPageFormat([m EXCEPT !.f = g1], g1.curOrientation, g1.curPageSize)
                     ELSE m} |->
        With([entry \in {[y |-> g.y, h |-> c.h, trigger |-> g.pageBreakTrigger,
                         inHeader |-> g.inHeader, inFooter |-> g.inFooter,
                         accept |-> acceptPageBreak(g), x |-> x, ws |-> ws,
                         page0 |-> g.page, state0 |-> g.state, len0 |-> CurLen(g),
                         o |-> g.curOrientation, size |-> g.curPageSize,
                         napf |-> Len(ma.hist.apfs) - Len(m.hist.apfs),
                         apf |-> IF Len(ma.hist.apfs) > Len(m.hist.apfs)
                                 THEN <<ma.hist.apfs[Len(ma.hist.apfs)]>> ELSE <<>>]} |->
        IF brk /\ ma.f.err # Nil
        THEN [ma EXCEPT !.hist.cells =
                 Append(@, entry @@ [drew |-> FALSE, xdraw |-> 0, wsdraw |-> ZeroWs,
                                     page1 |-> ma.f.page, state1 |-> ma.f.state,
                                     len1 |-> 0, len2 |-> 0])]
        ELSE
        With([g2 \in {IF brk THEN CellFormatResume(ma.f, x, ws) ELSE ma.f} |->
            [ma EXCEPT !.f = CellDraw(g2, c, borderStr),
                       !.hist.cells =
                 Append(@, entry @@ [drew |-> TRUE, xdraw |-> g2.x, wsdraw |-> g2.ws,
                                     page1 |-> g2.page, state1 |-> g2.state,
                                     len1 |-> CurLen(g2),
                                     len2 |-> CurLen(CellDraw(g2, c, borderStr))])]])])])])])])])])])

\* a comparison that never finds the line too wide
OverNever(l, a) == FALSE

\* l > wmax, with wmax = (w - 2 cMargin) * 1000 / fontSize a float64 that is
\* +Inf, -Inf or NaN when fontSize is 0; a.wnum is (w - 2 cMargin) * 1000
\* and a.fs is the font size
Over(l, a) ==
    CASE a.fs > 0 -> l * a.fs > a.wnum
      [] a.fs < 0 -> l * a.fs < a.wnum
      [] OTHER -> a.wnum < 0

\* no word spacing whatever the space left over
JustifyNever(g, a, ls, ns) == ZeroWs

\* (wmax - ls) / 1000 * f.fontSize / float64(ns - 1); a denominator of 0
\* stands for a value that is not finite
Justify(g, a, ls, ns) ==
    IF a.fs = 0 THEN [num |-> -1, den |-> 0, mul |-> g.fontSize]
    ELSE IF a.fs > 0
         THEN [num |-> a.wnum - ls * a.fs, den |-> a.fs * 1000 * (ns - 1),
               mul |-> g.fontSize]
         ELSE [num |-> ls * a.fs - a.wnum, den |-> (0 - a.fs) * 1000 * (ns - 1),
               mul |-> g.fontSize]

\* the word spacing left as it is
WsKept(g) == g

\* if f.ws > 0 { f.ws = 0; f.out("0 Tw") }
WsReset(g) == IF WsPos(g.ws) THEN out([g EXCEPT !.ws = ZeroWs], TwZero) ELSE g

\* if i == j { i++ } left out
HardBreakStay(i, j) == i

\* if i == j { i++ }: the index a hard break ends the line at
HardBreakEnd(i, j) == IF i = j THEN i + 1 ELSE i

\* the place of the line just written by out
Place(g) == [page |-> g.page, pos |-> CurLen(g), onpage |-> g.state = 2]
NoPlace == [page |-> 0, pos |-> 0, onpage |-> FALSE]

\* history: m1 is the result of the CellFormat call that m0 made for the
\* line txt; L holds the local variables at the break and tw is the place
\* of the line's Tw operator
LineOf(m0, m1, a, kind, txt, L, tw) ==
    [m1 EXCEPT !.hist.lines =
        Append(@, [op |-> a.op, kind |-> kind, txt |-> txt, wnum |-> L.wnum, fs |-> a.fs,
                   align |-> a.align, ns |-> L.ns, ls |-> L.ls, font |-> m0.f.currentFont,
                   fontSize |-> m0.f.fontSize, latched |-> m0.f.err # Nil,
                   cell |-> IF Len(m1.hist.cells) > Len(m0.hist.cells)
                            THEN Len(m1.hist.cells) ELSE 0,
                   tw |-> tw])]

\* history: the values of i and j at the head of a pass of loop a.id
Scanned(r, a) ==
    [r EXCEPT !.m.hist.loops[a.id].scan = Append(@, <<r.L.i, r.L.j>>)]

\* history: a loop over nb characters begins
LoopOf(m, opname, nb) ==
    [m EXCEPT !.hist.loops = Append(@, [op |-> opname, nb |-> nb, scan |-> <<>>])]

\* one cell of MultiCell: the characters s[j:i] with border b
CellOf(a, L, from, to) ==
    CCellFormat(a.w, a.h, SubSeq(a.s, from + 1, to), L.b, 2, a.align, a.fill, 0, "")

\* a line break after which the border of the first line stays
NextLineSameBorder(a, L, i) ==
    [L EXCEPT !.sep = -1, !.i = i, !.j = i, !.l = 0, !.ns = 0, !.nl = L.nl + 1]

\* the assignments after a line break
NextLine(a, L, i) ==
    [L EXCEPT !.sep = -1, !.i = i, !.j = i, !.l = 0, !.ns = 0, !.nl = L.nl + 1,
              !.b = IF a.borderStr # "" /\ L.nl + 1 = 2 THEN a.b2 ELSE L.b]

\* one pass of the for loop of MultiCell; L holds its local variables
MultiCellStep(m, a, L) ==
    With([c \in {a.s[L.i + 1]} |->
        IF c = "\n"
        THEN With([m0 \in {[m EXCEPT !.f = WsReset(m.f)]} |->
                 [m |-> LineOf(m0, CellFormat(m0, CellOf(a, L, L.j, L.i)), a, "newline",
                               SubSeq(a.s, L.j + 1, L.i), L, NoPlace),
                  L |-> NextLine(a, L, L.i + 1)]])
        ELSE
        With([L1 \in {IF c = " "
                     THEN [L EXCEPT !.sep = L.i, !.ls = L.l, !.ns = L.ns + 1] ELSE L} |->
            With([L2 \in {[L1 EXCEPT !.l = L1.l + cw(m.f.currentFont, c)]} |->
            IF ~Over(L2.l, a) THEN [m |-> m, L |-> [L2 EXCEPT !.i = L2.i + 1]]
            ELSE IF L2.sep = -1
            THEN With([i1 \in {HardBreakEnd(L2.i, L2.j)} |->
                     With([m0 \in {[m EXCEPT !.f = WsReset(m.f)]} |->
                     [m |-> LineOf(m0, CellFormat(m0, CellOf(a, L2, L2.j, i1)), a, "hard",
                                   SubSeq(a.s, L2.j + 1, i1), L2, NoPlace),
                      L |-> NextLine(a, L2, i1)]])])
            ELSE With([g1 \in {IF a.align = "J"
                              THEN With([ws \in {IF L2.ns > 1 THEN Justify(m.f, a, L2.ls, L2.ns)
                                                ELSE ZeroWs} |->
                                       out([m.f EXCEPT !.ws = ws], TwLine(ws))])
                              ELSE m.f} |->
                     With([m0 \in {[m EXCEPT !.f = g1]} |->
                     [m |-> LineOf(m0, CellFormat(m0, CellOf(a, L2, L2.j, L2.sep)), a, "soft",
                                   SubSeq(a.s, L2.j + 1, L2.sep), L2,
                                   IF a.align = "J" THEN Place(g1) ELSE NoPlace),
                      L |-> NextLine(a, L2, L2.sep + 1)]])])])])])

\* the for loop of MultiCell from r on: r.m is the struct and the history,
\* r.L the local variables
MultiCellLoop(r, a) ==
    IF r.L.i >= a.nb \/ Len(r.m.hist.loops[a.id].scan) >= MaxIter THEN Scanned(r, a)
    ELSE MultiCellLoop(MultiCellStep(Scanned(r, a).m, a, r.L), a)

\* strings.Replace(txtStr, "\r", "", -1)
RECURSIVE RemoveCR(_)
RemoveCR(s) ==
    IF s = <<>> THEN <<>>
    ELSE (IF Head(s) = "\r" THEN <<>> ELSE <<Head(s)>>) \o RemoveCR(Tail(s))

MultiCell(m, c) ==
    With([g \in {m.f} |->
        With([alignStr \in {IF c.align = "" THEN "J" ELSE c.align} |->
        With([w \in {IF c.w = 0 THEN g.w - g.rMargin - g.x ELSE c.w} |->
        With([s0 \in {RemoveCR(c.txt)} |->
        With([nb \in {IF Len(s0) > 0 /\ s0[Len(s0)] = "\n" THEN Len(s0) - 1 ELSE Len(s0)} |->
        With([has \in {c.border # ""} |->
        With([b2 \in {IF ~has THEN ""
                     ELSE IF c.border = "1" THEN "LR"
                     ELSE (IF "L" \in Sides(c.border) THEN "L" ELSE "")
                          \o (IF "R" \in Sides(c.border) THEN "R" ELSE "")} |->
        With([b0 \in {IF ~has THEN "0"
                     ELSE IF c.border = "1" THEN "LRT"
                     ELSE IF "T" \in Sides(c.border) THEN b2 \o "T" ELSE b2} |->
        With([a \in {[w |-> w, h |-> c.h, s |-> SubSeq(s0, 1, nb), nb |-> nb,
                     borderStr |-> IF c.border = "1" THEN "LTRB" ELSE c.border,
                     b2 |-> b2, align |-> alignStr, fill |-> c.fill,
                     wnum |-> (w - 2 * g.cMargin) * 1000, fs |-> g.fontSize,
                     op |-> "MultiCell", id |-> Len(m.hist.loops) + 1]} |->
        With([r \in {MultiCellLoop([m |-> LoopOf(m, "MultiCell", nb),
                                   L |-> [sep |-> -1, i |-> 0, j |-> 0, l |-> 0, ls |-> 0,
                                          ns |-> 0, nl |-> 1, b |-> b0, wnum |-> a.wnum]], a)} |->
        With([bl \in {IF has /\ "B" \in Sides(a.borderStr) THEN r.L.b \o "B" ELSE r.L.b} |->
        With([m0 \in {[r.m EXCEPT !.f = WsReset(r.m.f)]} |->
        With([m1 \in {LineOf(m0, CellFormat(m0, CellOf(a, [r.L EXCEPT !.b = bl], r.L.j, r.L.i)),
                             a, "last", SubSeq(a.s, r.L.j + 1, r.L.i), r.L, NoPlace)} |->
        [m1 EXCEPT !.f.x = m1.f.lMargin]])])])])])])])])])])])])])

\* w = f.w - f.rMargin - f.x and wmax = (w - 2 cMargin) * 1000 / fontSize,
\* kept in the local variables of write as w, wnum and fs
Rewidth(m, L) ==
    [L EXCEPT !.w = m.f.w - m.f.rMargin - m.f.x,
              !.wnum = (m.f.w - m.f.rMargin - m.f.x - 2 * m.f.cMargin) * 1000,
              !.fs = m.f.fontSize]

\* one cell of write: the characters s[j:i]
WriteCellOf(a, L, from, to) ==
    CCellFormat(L.w, a.h, SubSeq(a.s, from + 1, to), "", 2, "", FALSE, a.link, a.linkStr)

\* a line break of write after which the next line starts one character
\* late
WriteNextLineLate(m, L, i) ==
    [m |-> IF L.nl = 1 THEN [m EXCEPT !.f.x = m.f.lMargin] ELSE m,
     L |-> [L EXCEPT !.sep = -1, !.i = i + 1, !.j = i + 1, !.l = 0, !.nl = L.nl + 1]]

\* the assignments of write after a line break that ended at i: the line
\* after the first one starts at the left margin
WriteNextLine(m, L, i) ==
    With([m1 \in {IF L.nl = 1 THEN [m EXCEPT !.f.x = m.f.lMargin] ELSE m} |->
        [m |-> m1,
         L |-> [(IF L.nl = 1 THEN Rewidth(m1, L) ELSE L)
                    EXCEPT !.sep = -1, !.i = i, !.j = i, !.l = 0, !.nl = L.nl + 1]]])

\* history: write went from m0 with the locals L0 to m1 with the locals
\* L1 without a call of CellFormat
MovedOf(m0, L0, r, a) ==
    [r EXCEPT !.m.hist.moves =
        Append(@, [h |-> a.h, x0 |-> m0.f.x, y0 |-> m0.f.y, x1 |-> r.m.f.x, y1 |-> r.m.f.y,
                   i0 |-> L0.i, i1 |-> r.L.i, j0 |-> L0.j, j1 |-> r.L.j,
                   l0 |-> L0.l, l1 |-> r.L.l, sep |-> L0.sep, wnum0 |-> L0.wnum,
                   wnum1 |-> r.L.wnum, fs |-> r.L.fs,
                   from |-> Place(m0.f), to |-> Place(r.m.f),
                   cells |-> Len(r.m.hist.cells) - Len(m0.hist.cells),
                   lines |-> Len(m0.hist.lines)])]

\* a move to the next line that stays on the line
MoveStays(m, a, L) == [m |-> [m EXCEPT !.f.x = m.f.lMargin], L |-> L]

\* the move of write to the next line: the cursor goes to the left margin
\* one line down, the width is taken anew and the scan goes on
MoveToNextLine(m, a, L) ==
    With([m1 \in {[m EXCEPT !.f.x = m.f.lMargin, !.f.y = m.f.y + a.h]} |->
        [m |-> m1, L |-> [Rewidth(m1, L) EXCEPT !.i = L.i + 1, !.nl = L.nl + 1]]])

\* one pass of the for loop of write; L holds its local variables
WriteStep(m, a, L) ==
    With([c \in {a.s[L.i + 1]} |->
        IF c = "\n"
        THEN WriteNextLine(LineOf(m, CellFormat(m, WriteCellOf(a, L, L.j, L.i)), a, "newline",
                                  SubSeq(a.s, L.j + 1, L.i), L, NoPlace),
                           L, L.i + 1)
        ELSE
        With([L1 \in {IF c = " " THEN [L EXCEPT !.sep = L.i] ELSE L} |->
            With([L2 \in {[L1 EXCEPT !.l = L1.l + cw(m.f.currentFont, c)]} |->
            IF ~Over(L2.l, L2) THEN [m |-> m, L |-> [L2 EXCEPT !.i = L2.i + 1]]
            ELSE IF L2.sep = -1
            THEN IF m.f.x > m.f.lMargin
                 THEN MovedOf(m, L2, MoveToNextLine(m, a, L2), a)
                 ELSE With([i1 \in {HardBreakEnd(L2.i, L2.j)} |->
                          WriteNextLine(LineOf(m, CellFormat(m, WriteCellOf(a, L2, L2.j, i1)),
                                               a, "hard", SubSeq(a.s, L2.j + 1, i1), L2, NoPlace),
                                        L2, i1)])
            ELSE WriteNextLine(LineOf(m, CellFormat(m, WriteCellOf(a, L2, L2.j, L2.sep)),
                                      a, "soft", SubSeq(a.s, L2.j + 1, L2.sep), L2, NoPlace),
                               L2, L2.sep + 1)])])])

\* the for loop of write from r on
RECURSIVE WriteLoop(_, _)
WriteLoop(r, a) ==
    IF r.L.i >= a.nb \/ Len(r.m.hist.loops[a.id].scan) >= MaxIter THEN Scanned(r, a)
    ELSE WriteLoop(WriteStep(Scanned(r, a).m, a, r.L), a)

write(m, h, txtStr, link, linkStr) ==
    With([s \in {RemoveCR(txtStr)} |->
        With([a \in {[h |-> h, s |-> s, nb |-> Len(s), link |-> link, linkStr |-> linkStr,
                     align |-> "", fs |-> m.f.fontSize, op |-> "write",
                     id |-> Len(m.hist.loops) + 1]} |->
        With([r \in {WriteLoop([m |-> LoopOf(m, "write", a.nb),
                                L |-> Rewidth(m, [sep |-> -1, i |-> 0, j |-> 0, l |-> 0, nl |-> 1,
                                                  ns |-> 0, ls |-> 0, w |-> 0, wnum |-> 0,
                                                  fs |-> 0])], a)} |->
        \* Last chunk
        IF r.L.i # r.L.j
        THEN LineOf(r.m, CellFormat(r.m, CCellFormat((r.L.l * r.m.f.fontSize) \div 1000, h,
                                                     SubSeq(s, r.L.j + 1, Len(s)), "", 0, "",
                                                     FALSE, link, linkStr)),
                    a, "last", SubSeq(s, r.L.j + 1, Len(s)), r.L, NoPlace)
        ELSE r.m])])])

Write(m, h, txtStr) == write(m, h, txtStr, 0, "")

-----------------------------------------------------------------------------
(* Images.                                                                 *)

\* the image files the program can read.  A PNG file is its signature, its
\* IHDR chunk and the chunks after it; a JPEG file is its header and its
\* start-of-frame segment
ImageFiles ==
    [f0 \in {"logo.png", "tall.png", "deep.png", "deep5.png", "glass.png", "photo.jpg"} |->
        CASE f0 = "logo.png" ->
               [kind |-> "png", sig |-> TRUE, ihdr |-> TRUE, w |-> 100, h |-> 40,
                bpc |-> 8, ct |-> 2, comp |-> 0, filt |-> 0, ilace |-> 0,
                chunks |-> <<[tp |-> "IDAT", data |-> <<1, 2, 3>>],
                             [tp |-> "IEND", data |-> <<>>]>>]
          [] f0 = "tall.png" ->
               [kind |-> "png", sig |-> TRUE, ihdr |-> TRUE, w |-> 100, h |-> 2000,
                bpc |-> 8, ct |-> 0, comp |-> 0, filt |-> 0, ilace |-> 0,
                chunks |-> <<[tp |-> "IDAT", data |-> <<4, 5>>],
                             [tp |-> "IEND", data |-> <<>>]>>]
          [] f0 = "deep.png" ->
               [kind |-> "png", sig |-> TRUE, ihdr |-> TRUE, w |-> 100, h |-> 40,
                bpc |-> 16, ct |-> 2, comp |-> 0, filt |-> 0, ilace |-> 0,
                chunks |-> <<[tp |-> "IDAT", data |-> <<6>>],
                             [tp |-> "IEND", data |-> <<>>]>>]
          [] f0 = "deep5.png" ->
               [kind |-> "png", sig |-> TRUE, ihdr |-> TRUE, w |-> 100, h |-> 40,
                bpc |-> 16, ct |-> 5, comp |-> 0, filt |-> 0, ilace |-> 0,
                chunks |-> <<[tp |-> "IDAT", data |-> <<7>>],
                             [tp |-> "IEND", data |-> <<>>]>>]
          [] f0 = "glass.png" ->
               \* two pixels in one row
               [kind |-> "png", sig |-> TRUE, ihdr |-> TRUE, w |-> 2, h |-> 1,
                bpc |-> 8, ct |-> 6, comp |-> 0, filt |-> 0, ilace |-> 0,
                chunks |-> <<[tp |-> "IDAT", data |-> <<120, 0, 11, 12, 13, 14>>],
                             [tp |-> "IDAT", data |-> <<21, 22, 23, 24>>],
                             [tp |-> "IEND", data |-> <<>>]>>]
          [] f0 = "photo.jpg" ->
               [kind |-> "jpg", sig |-> TRUE, ihdr |-> TRUE, w |-> 100, h |-> 40,
                bpc |-> 8, ct |-> 3, comp |-> 0, filt |-> 0, ilace |-> 0,
                chunks |-> <<>>] ]

\* the zero value of imageInfoType
ZeroInfo ==
    [w |-> 0, h |-> 0, cs |-> "", bpc |-> 0, f |-> "", dp |-> <<>>, pal |-> <<>>,
     trns |-> <<>>, data |-> <<>>, smask |-> <<>>, alpha |-> FALSE, i |-> 0, n |-> 0]

\* the files on the disk of the application
Disk == app.disk @@ ImageFiles

\* sliceCompress: a zlib stream, the header byte 0x78 followed by the data
Deflate(data) == <<120>> \o data

\* sliceUncompress: the data of a zlib stream, or an error for a stream
\* without the header
Inflate(z) ==
    IF z # <<>> /\ z[1] = 120 THEN [ok |-> TRUE, data |-> Tail(z)]
    ELSE [ok |-> FALSE, data |-> <<>>]

\* a split that takes the first sample of a pixel for its alpha
RECURSIVE SplitPixelsFirst(_, _, _, _)
SplitPixelsFirst(a, elPos, k, acc) ==
    IF k >= a.width THEN acc
    ELSE SplitPixelsFirst(a, elPos + a.c + 1, k + 1,
                          [color |-> acc.color \o SubSeq(a.data, elPos + 1, elPos + a.c),
                           alpha |-> Append(acc.alpha, a.data[elPos + 1])])

\* the loop over the pixels of a row from pixel k on: a.c colour samples
\* go to the colour buffer and the sample after them to the alpha buffer;
\* elPos is the offset of pixel k in the inflated data
RECURSIVE SplitPixels(_, _, _, _)
SplitPixels(a, elPos, k, acc) ==
    IF k >= a.width THEN acc
    ELSE SplitPixels(a, elPos + a.c + 1, k + 1,
                     [color |-> acc.color \o SubSeq(a.data, elPos + 1, elPos + a.c),
                      alpha |-> Append(acc.alpha, a.data[elPos + a.c + 1])])

\* the loop over the rows from row i on: the first byte of a row goes to
\* both buffers
RECURSIVE SplitRows(_, _, _)
SplitRows(a, i, acc) ==
    IF i >= a.height THEN acc
    ELSE With([pos \in {(1 + a.length) * i} |->
             SplitRows(a, i + 1,
                       SplitPixels(a, pos + 1, 0,
                                   [color |-> Append(acc.color, a.data[pos + 1]),
                                    alpha |-> Append(acc.alpha, a.data[pos + 1])]))])

\* the separation of the alpha and colour channels of the image info with
\* the collected data; indexing past the end of the inflated data panics
SplitAlpha(g, info, ct) ==
    With([z \in {Inflate(info.data)} |->
        IF ~z.ok THEN [g |-> AssignErr(g, "zlib: invalid header"),
                       info |-> [info EXCEPT !.data = <<>>]]
        ELSE
        With([a \in {[data |-> z.data, width |-> info.w, height |-> info.h,
                      c |-> IF ct = 4 THEN 1 ELSE 3,
                      length |-> (IF ct = 4 THEN 2 ELSE 4) * info.w]} |->
            IF a.height >= 1 /\ Len(a.data) < (1 + a.length) * a.height
            THEN [g |-> [g EXCEPT !.panicked = TRUE], info |-> info]
            ELSE With([sp \in {SplitRows(a, 0, [color |-> <<>>, alpha |-> <<>>])} |->
                     [g |-> [g EXCEPT !.pdfVersion = IF @ = "1.3" THEN "1.4" ELSE @],
                      info |-> [info EXCEPT !.data = Deflate(sp.color),
                                            !.smask = Deflate(sp.alpha),
                                            !.alpha = TRUE]]])])])

\* the chunk scan of parsepngstream from chunk k on; acc holds pal, trns,
\* data, the latched error and whether indexing the tRNS data panicked
RECURSIVE ChunkScan(_, _, _, _)
ChunkScan(chunks, k, ct, acc) ==
    IF k > Len(chunks)
    \* the buffer is exhausted: readBeInt32 stores io.EOF and returns 0
    THEN [acc EXCEPT !.err = "EOF"]
    ELSE
    With([ch \in {chunks[k]} |->
        With([n \in {Len(ch.data)} |->
        With([acc1 \in {CASE ch.tp = "PLTE" -> [acc EXCEPT !.pal = ch.data]
                     [] ch.tp = "tRNS" ->
                          IF ct = 0
                          THEN IF n < 2 THEN [acc EXCEPT !.panicked = TRUE]
                               ELSE [acc EXCEPT !.trns = <<ch.data[2]>>]
                          ELSE IF ct = 2
                          THEN IF n < 6 THEN [acc EXCEPT !.panicked = TRUE]
                               ELSE [acc EXCEPT !.trns = <<ch.data[2], ch.data[4], ch.data[6]>>]
                          ELSE IF \E p \in 1..n : ch.data[p] = 0
                               THEN [acc EXCEPT !.trns =
                                        <<(CHOOSE p \in 1..n : ch.data[p] = 0
                                               /\ \A q \in 1..(p - 1) : ch.data[q] # 0) - 1>>]
                               ELSE acc
                     [] ch.tp = "IDAT" -> [acc EXCEPT !.data = @ \o ch.data]
                     [] OTHER -> acc} |->
        IF acc1.panicked \/ ch.tp = "IEND" \/ n = 0 THEN acc1
        ELSE ChunkScan(chunks, k + 1, ct, acc1)])])])

\* an interlace flag that is never read as set
InterlacedNever(png) == FALSE

\* the interlace byte of the header chunk is not zero
Interlaced(png) == png.ilace # 0

\* parsepngstream: returns the struct and the image description
parsepngstream(g, png) ==
    IF ~png.sig THEN [g |-> AssignErr(g, "Not a PNG buffer"), info |-> ZeroInfo]
    ELSE IF ~png.ihdr THEN [g |-> AssignErr(g, "Incorrect PNG buffer"), info |-> ZeroInfo]
    ELSE
    With([g1 \in {IF png.bpc > 8
                 THEN AssignErr(g, "16-bit depth not supported in PNG file") ELSE g} |->
        With([colspace \in {CASE png.ct \in {0, 4} -> "DeviceGray"
                             [] png.ct \in {2, 6} -> "DeviceRGB"
                             [] png.ct = 3 -> "Indexed"
                             [] OTHER -> ""} |->
        With([colorVal \in {IF png.ct \in {2, 6} THEN 3 ELSE 1} |->
        With([g2 \in {IF png.ct \in {0, 2, 3, 4, 6} THEN g1
                     ELSE AssignErr(g1, "Unknown color type in PNG buffer")} |->
        IF g2.err # Nil THEN [g |-> g2, info |-> ZeroInfo]
        ELSE IF png.comp # 0
        THEN [g |-> AssignErr(g2, "Unknown compression method in PNG buffer"),
              info |-> ZeroInfo]
        ELSE IF png.filt # 0
        THEN [g |-> AssignErr(g2, "Unknown filter method in PNG buffer"),
              info |-> ZeroInfo]
        ELSE IF Interlaced(png)
        THEN [g |-> AssignErr(g2, "Interlacing not supported in PNG buffer"),
              info |-> ZeroInfo]
        ELSE
        With([sc \in {ChunkScan(png.chunks, 1, png.ct,
                               [pal |-> <<>>, trns |-> <<>>, data |-> <<>>, err |-> g2.err,
                                panicked |-> FALSE])} |->
            With([g3 \in {IF sc.err # g2.err
                         THEN [AssignErr(g2, sc.err) EXCEPT !.panicked = sc.panicked]
                         ELSE [g2 EXCEPT !.panicked = sc.panicked]} |->
            With([g4 \in {IF colspace = "Indexed" /\ sc.pal = <<>>
                         THEN AssignErr(g3, "Missing palette in PNG buffer") ELSE g3} |->
            With([info \in {[ZeroInfo EXCEPT !.w = png.w, !.h = png.h, !.cs = colspace,
                                            !.bpc = png.bpc, !.f = "FlateDecode",
                                            !.dp = <<colorVal, png.bpc, png.w>>,
                                            !.pal = sc.pal, !.trns = sc.trns, !.data = sc.data]} |->
            IF png.ct >= 4
            THEN SplitAlpha(g4, info, png.ct)
            ELSE [g |-> g4, info |-> info]])])])])])])])])

\* parsepng: bufferFromFile, then parsepngstream
parsepng(g, fileStr) ==
    IF fileStr \notin DOMAIN Disk
    THEN [g |-> AssignErr(g, "open " \o fileStr \o ": no such file"), info |-> ZeroInfo]
    ELSE parsepngstream(g, [Disk[fileStr] EXCEPT !.sig = @ /\ Disk[fileStr].kind = "png"])

\* parsejpg on a file whose first segment after the header is the start of
\* frame
parsejpg(g, fileStr) ==
    IF fileStr \notin DOMAIN Disk
    THEN [g |-> AssignErr(g, "open " \o fileStr \o ": no such file"), info |-> ZeroInfo]
    ELSE With([jpg \in {Disk[fileStr]} |->
             IF jpg.kind # "jpg"
             THEN [g |-> AssignErr(g, "Improper JPEG header"),
                   info |-> [ZeroInfo EXCEPT !.f = "DCTDecode"]]
             ELSE IF jpg.ct \notin {1, 3, 4}
             THEN [g |-> AssignErr(g, "JPEG buffer has unsupported color space"),
                   info |-> [ZeroInfo EXCEPT !.w = jpg.w, !.h = jpg.h, !.bpc = jpg.bpc]]
             ELSE [g |-> g,
                   info |-> [ZeroInfo EXCEPT !.w = jpg.w, !.h = jpg.h, !.bpc = jpg.bpc,
                                 !.cs = CASE jpg.ct = 3 -> "DeviceRGB"
                                          [] jpg.ct = 4 -> "DeviceCMYK"
                                          [] OTHER -> "DeviceGray",
                                 !.f = "DCTDecode"]]])

\* the file type Image derives from the extension of fileStr; "" when the
\* name has no dot
Extension(fileStr) ==
    CASE fileStr \in {"logo.png", "tall.png", "deep.png", "deep5.png", "glass.png",
                      "pixels.png", "chunks.png", "none.png", "nosig.png", "ct5.png", "comp.png",
                      "filt.png", "ilace.png"} -> "png"
      [] fileStr = "photo.jpg" -> "jpg"
      [] fileStr = "notes.txt" -> "txt"
      [] OTHER -> ""

\* an image looked up in a table that never holds it
RegisteredNever(g, fileStr) == FALSE

\* info, ok = f.images[fileStr]
Registered(g, fileStr) == fileStr \in DOMAIN g.images

\* Image up to the registration of the image in f.images
ImageInfo(g, c) ==
    IF Registered(g, c.file) THEN [g |-> g, info |-> g.images[c.file]]
    ELSE IF c.tp = "" /\ Extension(c.file) = ""
    THEN [g |-> AssignErr(g, "Image file has no extension and no type was specified"),
          info |-> ZeroInfo]
    ELSE
    With([tp0 \in {ToLower(IF c.tp = "" THEN Extension(c.file) ELSE c.tp)} |->
        With([tp \in {IF tp0 = "jpeg" THEN "jpg" ELSE tp0} |->
        With([r \in {CASE tp = "jpg" -> parsejpg(g, c.file)
                      [] tp = "png" -> parsepng(g, c.file)
                      [] OTHER -> [g |-> AssignErr(g, "Unsupported image type: " \o tp),
                                   info |-> ZeroInfo]} |->
        IF r.g.err # Nil \/ r.g.panicked THEN r
        ELSE With([info \in {[r.info EXCEPT !.i = Cardinality(DOMAIN g.images) + 1]} |->
                 [g |-> [r.g EXCEPT !.images = (c.file :> info) @@ @], info |-> info]])])])])

\* the condition of Image's automatic page break in flowing mode
ImageBreaks(g, h) ==
    g.y + h > g.pageBreakTrigger /\ ~g.inHeader /\ ~g.inFooter /\ acceptPageBreak(g)

Image(m, c) ==
    IF m.f.err # Nil THEN m
    ELSE
    With([r \in {ImageInfo(m.f, c)} |->
        IF r.g.err # Nil \/ r.g.panicked
        THEN [m EXCEPT !.f = r.g,
                       !.hist.imgs = Append(@, [file |-> c.file, drew |-> FALSE, i |-> 0,
                                                page |-> r.g.page, pos |-> 0,
                                                onpage |-> FALSE, depth |-> m.hist.depth])]
        ELSE
        With([info \in {r.info} |->
            With([w0 \in {IF c.w = 0 /\ c.h = 0 THEN -96000 ELSE c.w} |->
            With([h0 \in {IF c.w = 0 /\ c.h = 0 THEN -96000 ELSE c.h} |->
            \* -info.w * 72.0 / w / f.k for a whole number of dots per inch
            With([w1 \in {IF w0 < 0 THEN (info.w * 72000) \div ((0 - w0) \div 1000) ELSE w0} |->
            With([h1 \in {IF h0 < 0 THEN (info.h * 72000) \div ((0 - h0) \div 1000) ELSE h0} |->
            With([w \in {IF w1 = 0 THEN (h1 * info.w) \div info.h ELSE w1} |->
            With([h \in {IF h1 = 0 THEN (w * info.h) \div info.w ELSE h1} |->
            With([brk \in {c.flow /\ ImageBreaks(r.g, h)} |->
            With([ma \in {IF brk
                         THEN AddPageFormat([m EXCEPT !.f = r.g], r.g.curOrientation, r.g.curPageSize)
                         ELSE [m EXCEPT !.f = r.g]} |->
            IF brk /\ ma.f.err # Nil
            THEN [ma EXCEPT !.hist.imgs = Append(@, [file |-> c.file, drew |-> FALSE, i |-> info.i,
                                                     page |-> ma.f.page, pos |-> 0,
                                                     onpage |-> FALSE, depth |-> m.hist.depth])]
            ELSE
            With([g1 \in {IF brk THEN [ma.f EXCEPT !.x = r.g.x] ELSE ma.f} |->
                With([y \in {IF c.flow THEN g1.y ELSE c.y} |->
                With([g2 \in {IF c.flow THEN [g1 EXCEPT !.y = g1.y + h] ELSE g1} |->
                With([x \in {IF c.x < 0 THEN g2.x ELSE c.x} |->
                With([g3 \in {out(g2, Tk("cm Do", <<w, h, x, g2.h - (y + h), info.i>>, ""))} |->
                [ma EXCEPT !.f = IF c.link > 0 \/ c.linkStr # ""
                                 THEN newLink(g3, x, y, w, h, c.link, c.linkStr)
                                 ELSE g3,
                           !.hist.imgs = Append(@, [file |-> c.file, drew |-> TRUE, i |-> info.i,
                                                    page |-> g3.page, pos |-> CurLen(g3),
                                                    onpage |-> g3.state = 2,
                                                    depth |-> m.hist.depth])]])])])])])])])])])])])])])])])

\* a call made by a closure
Exec(m, c) ==
    CASE c.op = "SetFont" -> [m EXCEPT !.f = SetFont(m.f, c.fam, c.style, c.size)]
      [] c.op = "SetFontSize" -> [m EXCEPT !.f = SetFontSize(m.f, c.size)]
      [] c.op = "SetDrawColor" -> [m EXCEPT !.f = SetDrawColor(m.f, c.r, c.g, c.b)]
      [] c.op = "SetFillColor" -> [m EXCEPT !.f = SetFillColor(m.f, c.r, c.g, c.b)]
      [] c.op = "SetTextColor" -> [m EXCEPT !.f = SetTextColor(m.f, c.r, c.g, c.b)]
      [] c.op = "SetLineWidth" -> [m EXCEPT !.f = SetLineWidth(m.f, c.width)]
      [] c.op = "SetY" -> [m EXCEPT !.f = SetY(m.f, c.y)]
      [] c.op = "Ln" -> [m EXCEPT !.f = Ln(m.f, c.h)]
      [] c.op = "Line" -> [m EXCEPT !.f = Line(m.f, c.x, c.y, c.w, c.h)]
      [] c.op = "Text" -> [m EXCEPT !.f = Text(m.f, c.x, c.y, c.txt)]
      [] c.op = "SetError" -> [m EXCEPT !.f = SetError(m.f, c.e)]
      [] c.op = "CellFormat" -> CellFormat(m, c)
      [] c.op = "MultiCell" -> MultiCell(m, c)
      [] c.op = "Image" -> Image(m, c)
      [] OTHER -> m

-----------------------------------------------------------------------------
(* The end of the document.  f.buffer.Len() is counted in lines.           *)

\* for j := len(f.offsets); j <= f.n; j++ { f.offsets = append(f.offsets, 0) }
RECURSIVE PadOffsets(_, _)
PadOffsets(offsets, n) ==
    IF Len(offsets) > n THEN offsets ELSE PadOffsets(Append(offsets, 0), n)

\* an object header that leaves the object counter as it is
newobjSameNumber(g) ==
    out([g EXCEPT !.offsets = [PadOffsets(g.offsets, g.n + 1) EXCEPT ![g.n + 2] = Len(g.buffer)]],
        Tk("obj", <<g.n + 1>>, ""))

\* the slice holds offsets[0..], so offsets[n] is element n + 1 of the
\* sequence
newobj(g) ==
    out([g EXCEPT !.n = g.n + 1,
                  !.offsets = [PadOffsets(g.offsets, g.n + 1) EXCEPT ![g.n + 2] = Len(g.buffer)]],
        Tk("obj", <<g.n + 1>>, ""))

\* the offset of a reserved object left as newobj's padding wrote it
SetOffsetSkipped(g, j) ==
    IF j + 1 > Len(g.offsets) THEN [g EXCEPT !.panicked = TRUE] ELSE g

\* f.offsets[j] = f.buffer.Len() for the reserved objects 1 and 2; the
\* slice holds offsets[0..], so offsets[j] is element j + 1 of the sequence
SetOffset(g, j) ==
    IF j + 1 > Len(g.offsets) THEN [g EXCEPT !.panicked = TRUE]
    ELSE [g EXCEPT !.offsets[j + 1] = Len(g.buffer)]

\* putstream; filter names the compression applied to the data
putstream(g, data, filter) ==
    out(g, [op |-> "stream", n |-> <<Len(data)>>, s |-> filter, t |-> <<>>, d |-> data])

putheader(g) == out(g, Tk("%PDF-", <<>>, g.pdfVersion))

\* strings.Replace(s, f.aliasNbPagesStr, nbStr, -1) on the text of a line:
\* the alias is one element of a text, replaced by the page count
ReplaceAlias(t, alias, nb) ==
    [j \in 1..Len(t) |-> IF t[j] = alias THEN ToString(nb) ELSE t[j]]

ReplaceInLine(line, alias, nb) ==
    [line EXCEPT !.t = ReplaceAlias(@, alias, nb),
                 !.d = [j \in 1..Len(line.d) |->
                           [line.d[j] EXCEPT !.t = ReplaceAlias(@, alias, nb)]]]

\* the object pair of page n
RECURSIVE PutPage(_, _)
PutPage(g, n) ==
    IF n > g.page \/ g.panicked THEN g
    ELSE
    With([g1 \in {out(out(newobj(g), Tk("/Type /Page", <<>>, "")), Tk("/Parent", <<1>>, ""))} |->
        With([g2 \in {IF n \in DOMAIN g1.pageSizes
                     THEN out(g1, Tk("/MediaBox", <<g1.pageSizes[n].wd, g1.pageSizes[n].ht>>, ""))
                     ELSE g1} |->
        With([g3 \in {out(g2, Tk("/Resources", <<2>>, ""))} |->
        With([hPt \in {IF g.defOrientation = "P" THEN g.defPageSize.ht ELSE g.defPageSize.wd} |->
        With([pls \in {g3.pageLinks[n]} |->
        With([bad \in {\E j \in 1..Len(pls) : pls[j].link # 0 /\ pls[j].link \notin 1..Len(g3.links)} |->
        IF bad THEN [g3 EXCEPT !.panicked = TRUE]
        ELSE
        With([annots \in {[j \in 1..Len(pls) |->
                            IF pls[j].link = 0
                            THEN [op |-> "/URI", n |-> <<pls[j].x, pls[j].y, pls[j].x + pls[j].wd,
                                                         pls[j].y - pls[j].ht>>,
                                  s |-> pls[j].linkStr, t |-> <<>>, d |-> <<>>]
                            ELSE With([l \in {g3.links[pls[j].link]} |->
                                     With([h \in {IF l.page \in DOMAIN g3.pageSizes
                                                 THEN g3.pageSizes[l.page].ht ELSE hPt} |->
                                     [op |-> "/Dest", n |-> <<pls[j].x, pls[j].y, pls[j].x + pls[j].wd,
                                                              pls[j].y - pls[j].ht,
                                                              1 + 2 * l.page, h - l.y>>,
                                      s |-> "", t |-> <<>>, d |-> <<>>]])])]} |->
        With([g4 \in {IF Len(pls) > 0
                     THEN out(g3, [op |-> "/Annots", n |-> <<>>, s |-> "", t |-> <<>>, d |-> annots])
                     ELSE g3} |->
        With([g5 \in {IF g4.pdfVersion # "1.3" THEN out(g4, Tk("/Group", <<>>, "")) ELSE g4} |->
        With([g6 \in {out(out(g5, Tk("/Contents", <<g5.n + 1>>, "")), Tk("endobj", <<>>, ""))} |->
        With([g7 \in {newobj(g6)} |->
        With([g8 \in {out(g7, Tk("/Length", <<Len(g7.pages[n])>>,
                                IF g7.compress THEN "FlateDecode" ELSE ""))} |->
        With([g9 \in {putstream(g8, g8.pages[n], IF g8.compress THEN "FlateDecode" ELSE "")} |->
        PutPage(out(g9, Tk("endobj", <<>>, "")), n + 1)])])])])])])])])])])])])])

putpages(g) ==
    With([nb \in {g.page} |->
        With([g1 \in {IF g.aliasNbPagesStr # ""
                     THEN [g EXCEPT !.pages =
                              [n \in 1..Len(g.pages) |->
                                  [j \in 1..Len(g.pages[n]) |->
                                      ReplaceInLine(g.pages[n][j], g.aliasNbPagesStr, nb)]]]
                     ELSE g} |->
        With([wPt \in {IF g.defOrientation = "P" THEN g.defPageSize.wd ELSE g.defPageSize.ht} |->
        With([hPt \in {IF g.defOrientation = "P" THEN g.defPageSize.ht ELSE g.defPageSize.wd} |->
        With([g2 \in {PutPage(g1, 1)} |->
        With([g3 \in {SetOffset(g2, 1)} |->
        With([g4 \in {out(out(g3, Tk("obj", <<1>>, "")), Tk("/Type /Pages", <<>>, ""))} |->
        With([g5 \in {out(g4, Tk("/Kids", [i \in 1..nb |-> 3 + 2 * (i - 1)], ""))} |->
        With([g6 \in {out(out(g5, Tk("/Count", <<nb>>, "")), Tk("/MediaBox", <<wPt, hPt>>, ""))} |->
        IF g2.panicked \/ g3.panicked THEN [g2 EXCEPT !.panicked = TRUE]
        ELSE out(out(g6, Tk(">>", <<>>, "")), Tk("endobj", <<>>, ""))])])])])])])])])])

\* ranks that order the keys of f.fontFiles, f.fonts and f.images
FileRank(file) == IF file = "calligra.z" THEN 1 ELSE 2
FontRank(g) == [k \in DOMAIN g.fonts |-> g.fonts[k].I]
ImageRank(g) == [k \in DOMAIN g.images |-> g.images[k].i]

\* the font file loop of putfonts over the files left in todo
RECURSIVE PutFontFiles(_, _)
PutFontFiles(g, todo) ==
    IF todo = <<>> THEN g
    ELSE
    With([file \in {Head(todo)} |->
        With([g1 \in {newobj(g)} |->
        With([g2 \in {[g1 EXCEPT !.fontFiles[file].n = g1.n]} |->
        With([info \in {g2.fontFiles[file]} |->
        With([compressed \in {file = "calligra.z"} |->
        IF file \notin FontFilesOnDisk
        THEN AssignErr(g2, "open " \o file \o ": no such file")
        ELSE
        With([g3 \in {out(g2, Tk("/Length", <<info.length1>>,
                                IF compressed THEN "FlateDecode" ELSE ""))} |->
            With([g4 \in {out(g3, Tk("/Length1", <<info.length1>>, ""))} |->
            With([g5 \in {IF info.length2 > 0 THEN out(g4, Tk("/Length2", <<info.length2>>, "")) ELSE g4} |->
            With([g6 \in {putstream(out(g5, Tk(">>", <<>>, "")), <<Tk("font", <<>>, file)>>,
                                   IF compressed THEN "FlateDecode" ELSE "")} |->
            PutFontFiles(out(g6, Tk("endobj", <<>>, "")), Tail(todo))])])])])])])])])])

\* the font loop of putfonts over the keys left in todo; nf is f.n on entry
\* of putfonts
RECURSIVE PutFontObjs(_, _, _)
PutFontObjs(g, todo, nf) ==
    IF todo = <<>> THEN g
    ELSE
    With([k \in {Head(todo)} |->
        With([g1 \in {[g EXCEPT !.fonts[k].N = g.n + 1]} |->
        With([font \in {g1.fonts[k]} |->
        IF font.Tp = "Core"
        THEN With([g2 \in {out(out(newobj(g1), Tk("/Type /Font", <<>>, "")),
                              Tk("/BaseFont", <<>>, font.Name))} |->
                 With([g3 \in {out(g2, Tk("/Subtype", <<>>, "Type1"))} |->
                 With([g4 \in {IF font.Name \notin {"Symbol", "ZapfDingbats"}
                              THEN out(g3, Tk("/Encoding", <<>>, "WinAnsiEncoding")) ELSE g3} |->
                 PutFontObjs(out(out(g4, Tk(">>", <<>>, "")), Tk("endobj", <<>>, "")),
                             Tail(todo), nf)])])])
        ELSE IF font.Tp \in {"Type1", "TrueType"}
        THEN With([g2 \in {out(out(newobj(g1), Tk("/Type /Font", <<>>, "")),
                              Tk("/BaseFont", <<>>, font.Name))} |->
                 With([g3 \in {out(out(g2, Tk("/Subtype", <<>>, font.Tp)),
                                  Tk("/FirstChar /LastChar", <<32, 255>>, ""))} |->
                 With([g4 \in {out(out(g3, Tk("/Widths", <<g3.n + 1>>, "")),
                                  Tk("/FontDescriptor", <<g3.n + 2>>, ""))} |->
                 With([g5 \in {IF font.DiffN > 0
                              THEN out(g4, Tk("/Encoding", <<nf + font.DiffN>>, ""))
                              ELSE out(g4, Tk("/Encoding", <<>>, "WinAnsiEncoding"))} |->
                 With([g6 \in {out(out(g5, Tk(">>", <<>>, "")), Tk("endobj", <<>>, ""))} |->
                 With([g7 \in {out(out(newobj(g6), Tk("widths", <<>>, font.Name)),
                                  Tk("endobj", <<>>, ""))} |->
                 With([g8 \in {out(newobj(g7),
                                  Tk("/FontDescriptor",
                                     <<IF font.File \in DOMAIN g7.fontFiles
                                       THEN g7.fontFiles[font.File].n ELSE 0>>,
                                     IF font.Tp # "Type1" THEN "FontFile2" ELSE "FontFile"))} |->
                 PutFontObjs(out(g8, Tk("endobj", <<>>, "")), Tail(todo), nf)])])])])])])])
        ELSE AssignErr(g1, "Unsupported font type: " \o font.Tp)])])])

\* the encodings loop of putfonts
RECURSIVE PutDiffs(_, _)
PutDiffs(g, j) ==
    IF j > Len(g.diffs) THEN g
    ELSE PutDiffs(out(out(newobj(g), Tk("/Differences", <<>>, g.diffs[j])),
                      Tk("endobj", <<>>, "")), j + 1)

\* putfonts; ords gives the order in which each range over a map visits
\* its keys
putfonts(g, ords) ==
    IF g.err # Nil THEN g
    ELSE
    With([nf \in {g.n} |->
        With([g1 \in {PutDiffs(g, 1)} |->
        With([g2 \in {PutFontFiles(g1, SortBy(DOMAIN g1.fontFiles,
                                             [k \in DOMAIN g1.fontFiles |-> FileRank(k)],
                                             ords.files))} |->
        IF g2.err # Nil THEN g2
        ELSE PutFontObjs(g2, SortBy(DOMAIN g2.fonts, FontRank(g2), ords.fonts), nf)])])])

\* putimage for the image registered under key; the soft mask and the
\* palette follow the image
putimage(g, key) ==
    With([g1 \in {newobj(g)} |->
        With([info \in {[g1.images[key] EXCEPT !.n = g1.n]} |->
        With([g2 \in {out(out(g1, Tk("/Type /XObject", <<>>, "")), Tk("/Subtype", <<>>, "Image"))} |->
        With([g3 \in {out(out(g2, Tk("/Width", <<info.w>>, "")), Tk("/Height", <<info.h>>, ""))} |->
        With([g4 \in {IF info.cs = "Indexed"
                     THEN out(g3, Tk("/ColorSpace", <<Len(info.pal) \div 3 - 1, g3.n + 1>>, "Indexed"))
                     ELSE With([gc \in {out(g3, Tk("/ColorSpace", <<>>, info.cs))} |->
                              IF info.cs = "DeviceCMYK" THEN out(gc, Tk("/Decode", <<>>, "")) ELSE gc])} |->
        With([g5 \in {out(g4, Tk("/BitsPerComponent", <<info.bpc>>, ""))} |->
        With([g6 \in {IF info.f # "" THEN out(g5, Tk("/Filter", <<>>, info.f)) ELSE g5} |->
        With([g7 \in {IF info.dp # <<>> THEN out(g6, Tk("/DecodeParms", info.dp, "")) ELSE g6} |->
        With([g8 \in {IF info.trns # <<>> THEN out(g7, Tk("/Mask", info.trns, "")) ELSE g7} |->
        \* info.smask != nil: parsepngstream stores a mask for the colour
        \* types with an alpha channel only, and putimages leaves an empty
        \* slice, not nil
        With([g9 \in {IF info.alpha THEN out(g8, Tk("/SMask", <<g8.n + 1>>, "")) ELSE g8} |->
        With([g10 \in {out(g9, Tk("/Length", <<Len(info.data)>>, ""))} |->
        With([g11 \in {out(putstream(g10, <<Tk("image", info.data, "")>>, info.f),
                          Tk("endobj", <<>>, ""))} |->
        With([g12 \in {IF info.smask # <<>>
                      THEN With([s1 \in {out(out(newobj(g11), Tk("/Type /XObject", <<>>, "")),
                                            Tk("/Subtype", <<>>, "Image"))} |->
                               With([s2 \in {out(out(s1, Tk("/Width", <<info.w>>, "")),
                                                Tk("/Height", <<info.h>>, ""))} |->
                               With([s3 \in {out(out(s2, Tk("/ColorSpace", <<>>, "DeviceGray")),
                                                Tk("/BitsPerComponent", <<8>>, ""))} |->
                               With([s4 \in {IF info.f # "" THEN out(s3, Tk("/Filter", <<>>, info.f)) ELSE s3} |->
                               With([s5 \in {out(s4, Tk("/DecodeParms", <<1, 8, info.w>>, ""))} |->
                               With([s6 \in {out(s5, Tk("/Length", <<Len(info.smask)>>, ""))} |->
                               out(putstream(s6, <<Tk("image", info.smask, "")>>, info.f),
                                   Tk("endobj", <<>>, ""))])])])])])])
                      ELSE g11} |->
        With([g13 \in {IF info.cs = "Indexed"
                      THEN With([p1 \in {newobj(g12)} |->
                               With([p2 \in {out(p1, Tk("/Length", <<Len(info.pal)>>,
                                                       IF p1.compress THEN "FlateDecode" ELSE ""))} |->
                               out(putstream(p2, <<Tk("palette", info.pal, "")>>,
                                             IF p1.compress THEN "FlateDecode" ELSE ""),
                                   Tk("endobj", <<>>, ""))])])
                      ELSE g12} |->
        [g13 EXCEPT !.images[key] = [info EXCEPT !.data = <<>>, !.smask = <<>>]]])])])])])])])])])])])])])])

RECURSIVE PutImages(_, _)
PutImages(g, todo) ==
    IF todo = <<>> THEN g ELSE PutImages(putimage(g, Head(todo)), Tail(todo))

putimages(g, ords) ==
    PutImages(g, SortBy(DOMAIN g.images, ImageRank(g), ords.images))

putxobjectdict(g, ords) ==
    With([keys \in {SortBy(DOMAIN g.images, ImageRank(g), ords.xobjects)} |->
        [g EXCEPT !.buffer = @ \o [j \in 1..Len(keys) |->
            Tk("/I", <<g.images[keys[j]].i, g.images[keys[j]].n>>, "")]]])

putresourcedict(g, ords) ==
    With([keys \in {SortBy(DOMAIN g.fonts, FontRank(g), ords.dict)} |->
        With([g1 \in {out(out(g, Tk("/ProcSet", <<>>, "")), Tk("/Font <<", <<>>, ""))} |->
        With([g2 \in {[g1 EXCEPT !.buffer = @ \o [j \in 1..Len(keys) |->
                         Tk("/F", <<g.fonts[keys[j]].I, g.fonts[keys[j]].N>>, "")]]} |->
        With([g3 \in {out(out(g2, Tk(">>", <<>>, "")), Tk("/XObject <<", <<>>, ""))} |->
        out(putxobjectdict(g3, ords), Tk(">>", <<>>, ""))])])])])

putresources(g, ords) ==
    IF g.err # Nil THEN g
    ELSE With([g1 \in {putfonts(g, ords)} |->
             IF g1.err # Nil THEN g1
             ELSE With([g2 \in {SetOffset(putimages(g1, ords), 2)} |->
                      With([g3 \in {out(out(g2, Tk("obj", <<2>>, "")), Tk("<<", <<>>, ""))} |->
                      With([g4 \in {putresourcedict(g3, ords)} |->
                      IF g2.panicked THEN g2
                      ELSE out(out(g4, Tk(">>", <<>>, "")), Tk("endobj", <<>>, ""))])])])])

putinfo(g) ==
    out(out(g, Tk("/Producer", <<>>, "FPDF")), Tk("/CreationDate", <<>>, ""))

putcatalog(g) ==
    With([g1 \in {out(out(g, Tk("/Type /Catalog", <<>>, "")), Tk("/Pages", <<1>>, ""))} |->
        With([g2 \in {IF g1.zoomMode \in {"fullpage", "fullwidth", "real"}
                     THEN out(g1, Tk("/OpenAction", <<3>>, g1.zoomMode)) ELSE g1} |->
        IF g2.layoutMode \in {"single", "continuous", "two"}
        THEN out(g2, Tk("/PageLayout", <<>>, g2.layoutMode)) ELSE g2])])

puttrailer(g) ==
    out(out(out(g, Tk("/Size", <<g.n + 1>>, "")), Tk("/Root", <<g.n>>, "")),
        Tk("/Info", <<g.n - 1>>, ""))

enddoc(g, ords) ==
    IF g.err # Nil THEN g
    ELSE
    With([g1 \in {putpages(putheader(g))} |->
        With([g2 \in {IF g1.panicked THEN g1 ELSE putresources(g1, ords)} |->
        IF g2.err # Nil \/ g2.panicked THEN g2
        ELSE
        With([g3 \in {out(out(putinfo(out(newobj(g2), Tk("<<", <<>>, ""))),
                             Tk(">>", <<>>, "")), Tk("endobj", <<>>, ""))} |->
            With([g4 \in {out(out(putcatalog(out(newobj(g3), Tk("<<", <<>>, ""))),
                                 Tk(">>", <<>>, "")), Tk("endobj", <<>>, ""))} |->
            With([o \in {Len(g4.buffer)} |->
            With([g5 \in {out(out(out(g4, Tk("xref", <<>>, "")), Tk("0", <<g4.n + 1>>, "")),
                             Tk("f", <<0, 65535>>, ""))} |->
            With([g6 \in {[g5 EXCEPT !.buffer = @ \o [j \in 1..g5.n |->
                             Tk("n", <<g5.offsets[j + 1], 0>>, "")]]} |->
            With([g7 \in {out(out(g6, Tk("trailer", <<>>, "")), Tk("<<", <<>>, ""))} |->
            With([g8 \in {out(out(puttrailer(g7), Tk(">>", <<>>, "")), Tk("startxref", <<>>, ""))} |->
            With([g9 \in {out(out(g8, Tk("offset", <<o>>, "")), Tk("%%EOF", <<>>, ""))} |->
            [g9 EXCEPT !.state = 3]])])])])])])])])])])

\* Close up to the footer of the last page; ret tells that Close returned
\* before it
CloseOpen(m) ==
    IF m.f.err # Nil \/ m.f.state = 3 THEN [m |-> m, ret |-> TRUE]
    ELSE
    With([m1 \in {IF m.f.page = 0 THEN AddPage(m) ELSE m} |->
        IF m.f.page = 0 /\ m1.f.err # Nil THEN [m |-> m1, ret |-> TRUE]
        ELSE [m |-> CallFooter(m1), ret |-> FALSE]])

Close(m, ords) ==
    With([r \in {CloseOpen(m)} |->
        IF r.ret THEN r.m
        ELSE With([m1 \in {[r.m EXCEPT !.f = enddoc(endpage(r.m.f), ords)]} |->
                 IF m1.f.state = 3 THEN Ev(m1, "enddoc") ELSE m1])])

\* Output; wr tells whether the writer accepts what it is given.
\* bytes.Buffer.WriteTo hands the unread bytes to the writer in one Write
\* call, when there are any, and empties the buffer once they are accepted
Output(m, ords, wr) ==
    IF m.f.err # Nil THEN [m |-> m, wrote |-> <<>>]
    ELSE
    With([m1 \in {IF m.f.state < 3 THEN Close(m, ords) ELSE m} |->
        IF m1.f.buffer = <<>> THEN [m |-> m1, wrote |-> <<>>]
        ELSE IF wr = "ok"
        THEN [m |-> [m1 EXCEPT !.f.buffer = <<>>], wrote |-> m1.f.buffer]
        ELSE [m |-> [m1 EXCEPT !.f = AssignErr(m1.f, "write error")], wrote |-> <<>>]])

-----------------------------------------------------------------------------
(* The application.                                                        *)

\* the closures the application registers
HeaderScripts ==
    { <<CSetFont("Courier", "U", 9000), CSetLineWidth(2000), CSetDrawColor(255, 0, 0),
        CSetFillColor(0, 0, 255), CSetTextColor(255, 0, 0),
        CCellFormat(0, 900000, <<"t">>, "1", 1, "C", FALSE, 0, "")>>,
      <<CImage("tall.png", 0, 0, 0, 0, TRUE, "", 0, "")>> }

FooterScripts ==
    { <<CSetY(-15000), CSetFontSize(8000),
        CCellFormat(0, 900000, <<"p">>, "", 0, "C", FALSE, 0, "")>>,
      <<CSetError("footer failed")>> }

\* the orders in which the ranges of Close may visit the maps of g
Orders(g) ==
    LET ord(map) == IF Cardinality(DOMAIN map) < 2 THEN {"asc"} ELSE MapOrders
    IN  [files : ord(g.fontFiles), fonts : ord(g.fonts), images : ord(g.images),
         xobjects : ord(g.images), dict : ord(g.fonts)]

\* the images the application places: the file and whether it flows
Files0 == {<<"logo.png", FALSE>>, <<"tall.png", TRUE>>, <<"deep.png", FALSE>>,
           <<"deep5.png", FALSE>>}

\* the fonts the application selects: family, style and size
Sel0 == {<<"Arial", "", 12000>>, <<"Arial", "U", 12000>>, <<"nosuch", "", 12000>>}

\* an application that makes MaxCalls calls and lays out seven words in a
\* narrow column
App0 == [limit |-> MaxCalls, files |-> Files0, fams |-> {"ghost", "calligra"},
         sel |-> Sel0,
         txt |-> <<"a", " ", "a", " ", "a", " ", "a", " ", "a", " ", "a", " ", "a">>,
         w |-> 36000, disk |-> EmptyMap, border |-> ""]

Init ==
    /\ f = New
    /\ sink = <<>>
    /\ hist = Hist0
    /\ app = App0

\* the program runs until a panic ends it
Live == ~f.panicked /\ hist.calls < app.limit

\* the struct and the history on entry of a call
M0 == [f |-> f, hist |-> [hist EXCEPT !.apfs = <<>>, !.cells = <<>>, !.imgs = <<>>,
                                    !.lines = <<>>, !.loops = <<>>, !.moves = <<>>]]

Return(opname, m) ==
    /\ f' = m.f
    /\ hist' = [m.hist EXCEPT !.calls = @ + 1, !.op = opname]
    /\ UNCHANGED <<sink, app>>

\* the closures are registered once, before the first other call
DoSetHeaderFunc ==
    \E body \in HeaderScripts :
        /\ hist.calls = 0 /\ ~f.headerFnc.set
        /\ f' = SetHeaderFunc(f, [set |-> TRUE, body |-> body])
        /\ hist' = [hist EXCEPT !.op = "SetHeaderFunc"]
        /\ UNCHANGED <<sink, app>>

DoSetFooterFunc ==
    \E body \in FooterScripts :
        /\ hist.calls = 0 /\ ~f.footerFnc.set
        /\ f' = SetFooterFunc(f, [set |-> TRUE, body |-> body])
        /\ hist' = [hist EXCEPT !.op = "SetFooterFunc"]
        /\ UNCHANGED <<sink, app>>

DoSetError ==
    Live /\ Return("SetError", [M0 EXCEPT !.f = SetError(f, "application error")])

DoSetErrorf ==
    Live /\ Return("SetErrorf", [M0 EXCEPT !.f = SetErrorf(f, "formatted error")])

DoAddFont ==
    \E fam \in app.fams :
        Live /\ Return("AddFont", [M0 EXCEPT !.f = AddFont(f, fam, "", fam \o ".json")])

DoSetFont ==
    \E a \in app.sel :
        Live /\ Return("SetFont", [M0 EXCEPT !.f = SetFont(f, a[1], a[2], a[3])])

DoAliasNbPages ==
    Live /\ Return("AliasNbPages", [M0 EXCEPT !.f = AliasNbPages(f, "")])

DoSetFontSize ==
    Live /\ Return("SetFontSize", [M0 EXCEPT !.f = SetFontSize(f, 10000)])

DoSetDrawColor ==
    Live /\ Return("SetDrawColor", [M0 EXCEPT !.f = SetDrawColor(f, 0, 255, 0)])

DoSetFillColor ==
    Live /\ Return("SetFillColor", [M0 EXCEPT !.f = SetFillColor(f, 255, 255, 0)])

DoSetTextColor ==
    Live /\ Return("SetTextColor", [M0 EXCEPT !.f = SetTextColor(f, 0, 0, 255)])

DoSetLineWidth ==
    Live /\ Return("SetLineWidth", [M0 EXCEPT !.f = SetLineWidth(f, 1000)])

DoSetAutoPageBreak ==
    Live /\ Return("SetAutoPageBreak", [M0 EXCEPT !.f = SetAutoPageBreak(f, FALSE, 2 * Margin)])

DoLine ==
    Live /\ Return("Line", [M0 EXCEPT !.f = Line(f, 10000, 10000, 50000, 10000)])

DoText ==
    Live /\ Return("Text", [M0 EXCEPT !.f = Text(f, 10000, 20000, <<"a", "(">>)])

DoLn ==
    Live /\ Return("Ln", [M0 EXCEPT !.f = Ln(f, 5000)])

DoSetXY ==
    Live /\ Return("SetXY", [M0 EXCEPT !.f = SetXY(f, 40000, 50000)])

DoAddLink ==
    Live /\ Return("AddLink", [M0 EXCEPT !.f = AddLink(f)])

DoSetLink ==
    \E link \in {1, 2} : \E page \in {-1, 3} :
        Live /\ Return("SetLink", [M0 EXCEPT !.f = SetLink(f, link, -1, page)])

DoLink ==
    Live /\ Return("Link", [M0 EXCEPT !.f = Link(f, 10000, 10000, 50000, 10000, 1)])

DoAddPage ==
    Live /\ Return("AddPage", AddPage(M0))

DoAddPageFormat ==
    Live /\ Return("AddPageFormat", AddPageFormat(M0, "L", SizeA5))

DoCellFormat ==
    \E h \in {20000, 800000} :
        Live /\ Return("CellFormat",
                       CellFormat(M0, CCellFormat(60000, h, <<"a">>, "1", 0, "L", FALSE, 0, "")))

DoMultiCell ==
    Live /\ Return("MultiCell",
                   MultiCell(M0, CMultiCell(app.w, 400000, app.txt, app.border, "J", FALSE)))

DoWrite ==
    Live /\ Return("Write", Write(M0, 400000, app.txt))

DoImage ==
    \E a \in app.files :
        Live /\ Return("Image", Image(M0, CImage(a[1], 10000, 10000, 0, 0, a[2], "", 0, "")))

DoClose ==
    \E ords \in Orders(CloseOpen(M0).m.f) :
        Live /\ Return("Close", Close(M0, ords))

DoOutput ==
    \E wr \in {"ok", "fail"} : \E ords \in Orders(CloseOpen(M0).m.f) :
        \E r \in {Output(M0, ords, wr)} :
            /\ Live
            /\ f' = r.m.f
            /\ hist' = [r.m.hist EXCEPT !.calls = @ + 1, !.op = "Output"]
            /\ sink' = Append(sink, [wr |-> wr, data |-> r.wrote, err |-> r.m.f.err])
            /\ UNCHANGED app

Next ==
    \/ DoSetHeaderFunc \/ DoSetFooterFunc
    \/ DoSetError \/ DoSetErrorf \/ DoAddFont \/ DoSetFont \/ DoSetFontSize
    \/ DoSetDrawColor \/ DoSetFillColor \/ DoSetTextColor \/ DoSetLineWidth
    \/ DoSetAutoPageBreak \/ DoLine \/ DoText \/ DoLn \/ DoSetXY \/ DoAddLink \/ DoSetLink
    \/ DoLink
    \/ DoAddPage \/ DoAddPageFormat \/ DoCellFormat \/ DoMultiCell \/ DoWrite \/ DoImage
    \/ DoClose \/ DoOutput

Spec == Init /\ [][Next]_vars

\* the calls the error latch is about
NextLatch ==
    \/ DoSetError \/ DoSetErrorf \/ DoSetFont \/ DoAddFont \/ DoAddPage
    \/ DoSetDrawColor \/ DoSetLineWidth \/ DoLine \/ DoSetXY \/ DoAddLink
    \/ DoCellFormat \/ DoImage \/ DoClose \/ DoOutput

SpecLatch == Init /\ [][NextLatch]_vars

\* the calls around the end of the document
NextFinish ==
    \/ DoAddFont \/ DoSetFont \/ DoAddPage \/ DoLine \/ DoText \/ DoSetDrawColor
    \/ DoCellFormat \/ DoClose \/ DoOutput

SpecFinish == Init /\ [][NextFinish]_vars

\* the calls that create pages and run the closures
NextPaging ==
    \/ DoSetHeaderFunc \/ DoSetFooterFunc \/ DoSetFont \/ DoSetLineWidth
    \/ DoSetDrawColor \/ DoSetFillColor \/ DoSetTextColor \/ DoSetAutoPageBreak
    \/ DoAddPage \/ DoAddPageFormat \/ DoCellFormat \/ DoMultiCell \/ DoImage
    \/ DoClose

SpecPaging == Init /\ [][NextPaging]_vars

\* the calls that fill the resource tables and serialize the document
NextObjects ==
    \/ DoAddFont \/ DoSetFont \/ DoAddPage \/ DoImage \/ DoClose \/ DoOutput

\* an application that also places an image with an alpha channel
InitObjects ==
    /\ f = New
    /\ sink = <<>>
    /\ hist = Hist0
    /\ app = [App0 EXCEPT !.files = Files0 \cup {<<"glass.png", FALSE>>}]

SpecObjects == InitObjects /\ [][NextObjects]_vars

\* the calls that register and select fonts
NextFonts ==
    \/ DoAddFont \/ DoSetFont \/ DoSetFontSize \/ DoAddPage \/ DoClose

\* an application that also adds a font with an encoding difference
InitFonts ==
    /\ f = New
    /\ sink = <<>>
    /\ hist = Hist0
    /\ app = [App0 EXCEPT !.fams = @ \cup {"euro"}]

SpecFonts == InitFonts /\ [][NextFonts]_vars

\* the texts of at most n characters over blanks, line feeds and a letter
RECURSIVE Texts(_)
Texts(n) ==
    IF n = 0 THEN {<<>>}
    ELSE Texts(n - 1) \cup {Append(t, c) : t \in {u \in Texts(n - 1) : Len(u) = n - 1},
                                           c \in {"a", " ", "\n"}}

\* the widths of the cells of an application that lays out text in a font
\* of 400 or 1200 points: narrower than the cell margins, the cell margins,
\* a letter and two letters of the smaller font
Widths == {1000, 5670, 255670, 465670}

\* an application that lays out a text of at most MaxLen characters
InitLayout ==
    /\ f = New
    /\ sink = <<>>
    /\ hist = Hist0
    /\ \E txt \in Texts(MaxLen) : \E w \in Widths :
          app = [App0 EXCEPT !.sel = {<<"Arial", "", 400000>>, <<"Arial", "", 1200000>>},
                             !.txt = txt, !.w = w]

NextLayout ==
    \/ DoSetFont \/ DoAddPage \/ DoMultiCell \/ DoWrite

SpecLayout == InitLayout /\ [][NextLayout]_vars

\* an application that places internal links and closes the document
InitLinks ==
    /\ f = New
    /\ sink = <<>>
    /\ hist = Hist0
    /\ app = [App0 EXCEPT !.limit = MaxLinkCalls]

NextLinks ==
    \/ DoAddPage \/ DoAddLink \/ DoSetLink \/ DoLink \/ DoClose

SpecLinks == InitLinks /\ [][NextLinks]_vars

\* the borders an application asks of MultiCell
Borders == {"", "1", "L", "R", "LR", "T", "B", "TB", "LT", "RB", "LTRB"}

\* an application that lays out a paragraph of at most MaxLen letters and
\* line feeds with a border, in a column one or two letters wide
InitBorders ==
    /\ f = New
    /\ sink = <<>>
    /\ hist = Hist0
    /\ \E txt \in {t \in Texts(MaxLen) : \A p \in 1..Len(t) : t[p] # " "} :
          \E w \in {255670, 465670} : \E b \in Borders :
              app = [App0 EXCEPT !.sel = {<<"Arial", "", 400000>>},
                                 !.txt = txt, !.w = w, !.border = b]

NextBorders ==
    \/ DoSetFont \/ DoAddPage \/ DoMultiCell

SpecBorders == InitBorders /\ [][NextBorders]_vars

\* the number of chunks between the header chunk and IEND
MaxChunks == 3

\* the sequences of at most n chunk kinds: an IDAT chunk, a palette, a
\* chunk of a type the scan does not know, and an IDAT chunk and an unknown
\* chunk without payload
RECURSIVE ChunkKinds(_)
ChunkKinds(n) ==
    IF n = 0 THEN {<<>>}
    ELSE ChunkKinds(n - 1)
         \cup {Append(t, c) : t \in {u \in ChunkKinds(n - 1) : Len(u) = n - 1},
                              c \in {"IDAT", "PLTE", "tEXt", "IDAT0", "tEXt0"}}

\* the chunks of a file with these kinds before its IEND chunk: the
\* payload of chunk p holds the bytes 10 p + 1 and 10 p + 2, a palette one
\* colour
ChunksOf(kinds) ==
    [p \in 1..(Len(kinds) + 1) |->
        IF p > Len(kinds) THEN [tp |-> "IEND", data |-> <<>>]
        ELSE CASE kinds[p] = "IDAT" -> [tp |-> "IDAT", data |-> <<10 * p + 1, 10 * p + 2>>]
               [] kinds[p] = "PLTE" -> [tp |-> "PLTE", data |-> <<10 * p, 10 * p, 10 * p>>]
               [] kinds[p] = "tEXt" -> [tp |-> "tEXt", data |-> <<10 * p + 5>>]
               [] kinds[p] = "IDAT0" -> [tp |-> "IDAT", data |-> <<>>]
               [] OTHER -> [tp |-> "tEXt", data |-> <<>>]]

\* an application that places a PNG file of at most MaxChunks chunks before
\* IEND, in RGB or with a palette
InitChunks ==
    /\ f = New
    /\ sink = <<>>
    /\ hist = Hist0
    /\ \E kinds \in ChunkKinds(MaxChunks) : \E ct \in {2, 3} :
          app = [App0 EXCEPT !.files = {<<"chunks.png", FALSE>>, <<"chunks.png", TRUE>>},
                             !.disk = "chunks.png" :>
                                 [ImageFiles["logo.png"] EXCEPT !.ct = ct,
                                                                !.chunks = ChunksOf(kinds)]]

NextChunks ==
    \/ DoAddPage \/ DoImage \/ DoClose

SpecChunks == InitChunks /\ [][NextChunks]_vars

\* an application that prints the page count on its pages, draws, places
\* an image and a link, and closes the document
InitFrame ==
    /\ f = New
    /\ sink = <<>>
    /\ hist = Hist0
    /\ app = [App0 EXCEPT !.limit = MaxLinkCalls, !.txt = <<"{nb}">>,
                          !.sel = {<<"Arial", "", 12000>>},
                          !.files = {<<"logo.png", FALSE>>}]

NextFrame ==
    \/ DoAliasNbPages \/ DoSetFont \/ DoSetDrawColor \/ DoAddPage \/ DoLine \/ DoWrite
    \/ DoImage \/ DoLink \/ DoClose

SpecFrame == InitFrame /\ [][NextFrame]_vars

\* the texts of at most n characters over a letter, a blank, a line feed
\* and a carriage return
RECURSIVE TextsCR(_)
TextsCR(n) ==
    IF n = 0 THEN {<<>>}
    ELSE TextsCR(n - 1) \cup {Append(t, c) : t \in {u \in TextsCR(n - 1) : Len(u) = n - 1},
                                             c \in {"a", " ", "\n", "\r"}}

\* an application that lays out a text of at most MaxLen characters in a
\* column one or two letters wide
InitText ==
    /\ f = New
    /\ sink = <<>>
    /\ hist = Hist0
    /\ \E txt \in TextsCR(MaxLen) : \E w \in {255670, 465670} :
          app = [App0 EXCEPT !.sel = {<<"Arial", "", 400000>>}, !.txt = txt, !.w = w]

NextText ==
    \/ DoSetFont \/ DoAddPage \/ DoMultiCell \/ DoWrite

SpecText == InitText /\ [][NextText]_vars

\* PNG files that parsepngstream rejects: logo.png with a wrong signature,
\* with the colour type 5, with a compression method, a filter method and
\* an interlace flag that are not zero
Rejected ==
    [f0 \in {"nosig.png", "ct5.png", "comp.png", "filt.png", "ilace.png"} |->
        CASE f0 = "nosig.png" -> [ImageFiles["logo.png"] EXCEPT !.sig = FALSE]
          [] f0 = "ct5.png" -> [ImageFiles["logo.png"] EXCEPT !.ct = 5]
          [] f0 = "comp.png" -> [ImageFiles["logo.png"] EXCEPT !.comp = 1]
          [] f0 = "filt.png" -> [ImageFiles["logo.png"] EXCEPT !.filt = 1]
          [] f0 = "ilace.png" -> [ImageFiles["logo.png"] EXCEPT !.ilace = 1]]

\* an application that places images that parse and images that do not:
\* rejected PNG files, files of 16 bits, a file that is not there and a
\* file that is no image
InitImages ==
    /\ f = New
    /\ sink = <<>>
    /\ hist = Hist0
    /\ app = [App0 EXCEPT !.files = {<<"logo.png", FALSE>>, <<"logo.png", TRUE>>,
                                     <<"glass.png", TRUE>>, <<"photo.jpg", FALSE>>,
                                     <<"deep.png", TRUE>>, <<"deep5.png", FALSE>>,
                                     <<"nosig.png", TRUE>>, <<"ct5.png", FALSE>>,
                                     <<"comp.png", TRUE>>, <<"filt.png", FALSE>>,
                                     <<"ilace.png", TRUE>>, <<"none.png", TRUE>>,
                                     <<"notes.txt", FALSE>>},
                       !.disk = Rejected]

NextImages ==
    \/ DoAddPage \/ DoSetXY \/ DoImage \/ DoClose

SpecImages == InitImages /\ [][NextImages]_vars

\* the widths and heights in pixels of the images with an alpha channel
MaxWidth == 2
MaxHeight == 2

\* the inflated data of an image of h rows, each a filter-type byte and w
\* pixels of n samples: byte p is seed * p modulo 256
Samples(w, h, n, seed) == [p \in 1..(h * (1 + n * w)) |-> (seed * p) % 256]

\* a PNG file of colour type ct with that data: whole in one IDAT chunk,
\* split over two chunks, short of its last byte, or without the header of
\* the zlib stream
Pixels(ct, w, h, seed, shape) ==
    With([raw \in {Samples(w, h, IF ct = 4 THEN 2 ELSE 4, seed)} |->
        With([z \in {CASE shape = "short" -> Deflate(SubSeq(raw, 1, Len(raw) - 1))
                      [] shape = "corrupt" -> raw
                      [] OTHER -> Deflate(raw)} |->
        [kind |-> "png", sig |-> TRUE, ihdr |-> TRUE, w |-> w, h |-> h,
         bpc |-> 8, ct |-> ct, comp |-> 0, filt |-> 0, ilace |-> 0,
         chunks |-> IF shape = "split"
                    THEN <<[tp |-> "IDAT", data |-> SubSeq(z, 1, 3)],
                           [tp |-> "IDAT", data |-> SubSeq(z, 4, Len(z))],
                           [tp |-> "IEND", data |-> <<>>]>>
                    ELSE <<[tp |-> "IDAT", data |-> z],
                           [tp |-> "IEND", data |-> <<>>]>>]])])

\* an application that places an image with an alpha channel of at most
\* MaxWidth by MaxHeight pixels
InitAlpha ==
    /\ f = New
    /\ sink = <<>>
    /\ hist = Hist0
    /\ \E ct \in {4, 6} : \E w \in 1..MaxWidth : \E h \in 1..MaxHeight :
          \E seed \in {0, 1, 37} : \E shape \in {"whole", "split", "short", "corrupt"} :
              app = [App0 EXCEPT !.files = {<<"pixels.png", FALSE>>, <<"pixels.png", TRUE>>},
                                 !.disk = "pixels.png" :> Pixels(ct, w, h, seed, shape)]

NextAlpha ==
    \/ DoAddPage \/ DoImage \/ DoClose

SpecAlpha == InitAlpha /\ [][NextAlpha]_vars

-----------------------------------------------------------------------------
(* The error latch.                                                        *)

\* the document state: page count, buffers, cursor, word spacing, graphics
\* state and resource tables
DocState(g) ==
    [page |-> g.page, pages |-> g.pages, buffer |-> g.buffer, state |-> g.state,
     x |-> g.x, y |-> g.y, lasth |-> g.lasth, ws |-> g.ws, gfx |-> Gfx(g),
     fonts |-> g.fonts, fontFiles |-> g.fontFiles, images |-> g.images,
     links |-> g.links, pageLinks |-> g.pageLinks]

\* C1: once an error is latched, a public operation returns without
\* changing the document state (page count, page buffers, output buffer,
\* cursor, word spacing, graphics state, resource tables).
C1_LatchedCallChangesNothing ==
    [][f.err # Nil => DocState(f') = DocState(f)]_vars

\* a call made while an error was latched has written into a page buffer
C1_WroteWhileLatched ==
    /\ hist.op = "SetDrawColor" /\ f.err # Nil /\ f.page > 0
    /\ Len(f.pages[f.page]) > 0
    /\ f.pages[f.page][Len(f.pages[f.page])] = Tk("color", <<>>, f.drawColor)
    /\ f.errs[1] = "Undefined font: nosuch "

\* C2: the latch keeps the first error: every value ever assigned to the
\* stored error is the first one, and the stored error is that value.
C2_LatchKeepsFirstError ==
    /\ \A i \in 1..Len(f.errs) : f.errs[i] = f.errs[1]
    /\ f.err = IF f.errs = <<>> THEN Nil ELSE f.errs[1]

\* a second error has replaced the first
C2_ErrorReplaced ==
    Len(f.errs) = 2 /\ f.errs[1] # f.errs[2] /\ f.err = f.errs[2]

-----------------------------------------------------------------------------
(* The end of the document.                                                *)

\* C3: an Output call that returns with an error latched has written
\* nothing to the sink.
C3_NoOutputOnError ==
    \A i \in 1..Len(sink) : sink[i].err # Nil => sink[i].data = <<>>

\* Output delivered the start of a document whose font file it then could
\* not read
C3_PartialOutput ==
    /\ hist.op = "Output" /\ Len(sink) = 1
    /\ sink[1].err = "open ghost.ttf: no such file"
    /\ sink[1].data # <<>> /\ sink[1].data[1].op = "%PDF-"
    /\ f.state # 3

\* C4: an Output call that directly follows an Output call on a closed
\* document delivers the bytes the first delivered, and a Close call on a
\* closed document changes nothing.
C4_FinalizeIdempotent ==
    [][/\ (hist.op = "Output" /\ hist'.op = "Output" /\ f.state = 3 /\ f.err = Nil
              /\ sink[Len(sink)].wr = "ok" /\ sink'[Len(sink')].wr = "ok")
          => sink'[Len(sink')].data = sink[Len(sink)].data
       /\ (f.state = 3 /\ hist'.op = "Close") => f' = f]_vars

\* the second of two Output calls delivered nothing
C4_SecondOutputEmpty ==
    /\ hist.op = "Output" /\ Len(sink) = 2 /\ f.err = Nil /\ f.state = 3
    /\ sink[1].wr = "ok" /\ sink[2].wr = "ok"
    /\ sink[1].data # <<>> /\ sink[2].data = <<>>

\* the calls that draw or select what is drawn
ContentOps == {"AddPage", "CellFormat", "Line", "Text", "SetDrawColor", "SetFont"}

\* C5: once the document is closed, a later AddPage, CellFormat, Line,
\* SetDrawColor, SetFont or Text leaves it closed and leaves the page
\* count, the page buffers and the output buffer unchanged.
C5_ClosedRejectsMutation ==
    [][(f.state = 3 /\ f.err = Nil /\ hist'.op \in ContentOps)
          => /\ f'.state = 3 /\ f'.page = f.page
             /\ f'.pages = f.pages /\ f'.buffer = f.buffer]_vars

\* a page was added to a closed document
C5_PageAfterClose ==
    /\ hist.op = "AddPage" /\ f.state = 2 /\ f.page = 2
    /\ \E i \in 1..Len(f.buffer) : f.buffer[i].op = "%%EOF"

\* C6: a Line, Text or CellFormat call made while no page exists creates
\* page 1, and no call made before the document is closed appends to the
\* output buffer.
C6_ImplicitFirstPage ==
    [][(f.state # 3 /\ f.err = Nil /\ hist'.op \in {"Line", "Text", "CellFormat"})
          => /\ f'.buffer = f.buffer
             /\ f'.page >= 1]_vars

\* a line drawn before the first page is in the output buffer, and no page
\* exists
C6_ContentInOutputBuffer ==
    /\ hist.op = "Line" /\ f.page = 0 /\ f.state = 0 /\ f.err = Nil
    /\ f.buffer = <<Tk("m l S", <<10000, A4ht - 10000, 50000, A4ht - 10000>>, "")>>

-----------------------------------------------------------------------------
(* Pages and closures.                                                     *)

IsInvocation(e) == e.ev \in {"header", "footer"}

\* the invocations of the closures, in order
Invocations(h) == SelectSeq(h.log, IsInvocation)

\* header(1), footer(1), ..., header(N), footer(N): every page that exists
\* has had its header, every page before the current one has had its
\* footer, and so has the current one when the document is closed
InOrder(g, h) ==
    (g.headerFnc.set /\ g.footerFnc.set) =>
        /\ \A i \in 1..Len(Invocations(h)) :
              /\ Invocations(h)[i].ev = (IF i % 2 = 1 THEN "header" ELSE "footer")
              /\ Invocations(h)[i].page = (i + 1) \div 2
        /\ Len(Invocations(h)) \in
              IF g.state = 3 THEN {2 * g.page}
              ELSE IF g.page = 0 THEN {0} ELSE {2 * g.page - 1, 2 * g.page}

\* the document has been closed
Ended(h) == \E i \in 1..Len(h.log) : h.log[i].ev = "enddoc"

\* C7: with a header and a footer closure registered, after every call made
\* up to and including the Close that ends the document the invocations are
\* header(1), footer(1), ..., header(N), footer(N): one header per page
\* after the page is opened, one footer per page while it is the current
\* page.
C7_HeaderFooterOrder ==
    [][~Ended(hist) => InOrder(f', hist')]_vars

\* with no error latched, the order of C7 holds after every call made up to
\* and including the Close that ends the document
C7_OrderWithoutError ==
    [][(~Ended(hist) /\ f'.err = Nil) => InOrder(f', hist')]_vars

\* the header closure has run twice for page 1
C7_HeaderTwiceOnPage ==
    /\ f.headerFnc.set /\ f.footerFnc.set /\ f.page = 1
    /\ Len(Invocations(hist)) = 3
    /\ Invocations(hist)[1] = [ev |-> "header", page |-> 1, depth |-> 0]
    /\ Invocations(hist)[3] = [ev |-> "header", page |-> 1, depth |-> 0]

\* two pages, closed, each with its header and its footer
C7_TwoPagesClosed ==
    /\ f.headerFnc.set /\ f.footerFnc.set /\ f.page = 2 /\ f.state = 3 /\ f.err = Nil
    /\ Len(Invocations(hist)) = 4

\* C8: no page is created while a header or footer closure is executing:
\* every page is opened outside the closures, no closure is invoked inside
\* another, and the page count where a closure returns is the page count
\* where it was invoked.
C8_NoPageInCallback ==
    \A i \in 1..Len(hist.log) :
        /\ hist.log[i].ev \in {"beginpage", "header", "footer"} => hist.log[i].depth = 0
        /\ hist.log[i].ev = "header end" =>
              /\ i > 1 /\ hist.log[i - 1].ev = "header"
              /\ hist.log[i - 1].page = hist.log[i].page
        /\ hist.log[i].ev = "footer end" =>
              /\ i > 1 /\ hist.log[i - 1].ev = "footer"
              /\ hist.log[i - 1].page = hist.log[i].page

\* a closure has drawn a cell that reaches below the page-break trigger
\* while page breaks are accepted, on the second page of a document
C8_CallbackPastTrigger ==
    /\ \E i \in 1..Len(hist.cells) :
          /\ hist.cells[i].inHeader \/ hist.cells[i].inFooter
          /\ hist.cells[i].y + hist.cells[i].h > hist.cells[i].trigger
          /\ hist.cells[i].accept /\ hist.cells[i].drew
    /\ f.page = 2 /\ f.err = Nil

\* C9: a CellFormat call starts a new page exactly when y + h exceeds the
\* page-break trigger, no closure is executing and the page break is
\* accepted.  It then writes "0 Tw" on the page it leaves when the word
\* spacing is positive, calls AddPageFormat with the orientation and size
\* of that page, and draws the cell on the new page at the x it was called
\* with, the word spacing restored and written on the new page first.
C9_CellPageBreak ==
    \A i \in 1..Len(hist.cells) :
        LET c == hist.cells[i]
            broke == c.napf = 1
        IN  /\ c.napf \in {0, 1}
            /\ broke <=> (c.y + c.h > c.trigger /\ ~c.inHeader /\ ~c.inFooter /\ c.accept)
            /\ broke =>
                  /\ c.apf[1].o = c.o /\ c.apf[1].size = c.size
                  /\ c.apf[1].page0 = c.page0
                  /\ (WsPos(c.ws) /\ c.state0 = 2) =>
                        f.pages[c.page0][c.len0 + 1] = TwZero
            /\ (broke /\ c.drew) =>
                  /\ c.page1 = c.page0 + 1
                  /\ c.xdraw = c.x /\ c.wsdraw = c.ws
                  /\ WsPos(c.ws) => f.pages[c.page1][c.len1] = TwLine(c.ws)
                  /\ Len(f.pages[c.page1]) > c.len1
                  /\ f.pages[c.page1][c.len1 + 1].op = "cell"
            /\ ~broke => (c.drew /\ c.page1 = c.page0)

\* a justified cell has moved to a new page with its word spacing
C9_JustifiedCellOnNewPage ==
    \E i \in 1..Len(hist.cells) :
        /\ hist.cells[i].napf = 1 /\ hist.cells[i].drew
        /\ WsPos(hist.cells[i].ws) /\ hist.cells[i].state0 = 2
        /\ hist.cells[i].x = Margin
        /\ f.headerFnc.set

-----------------------------------------------------------------------------
(* The object graph.                                                       *)

\* a stream that starts with the header line of a document
IsDocument(buf) == buf # <<>> /\ buf[1].op = "%PDF-"

\* the serialized documents: what Output delivered without error and what
\* the output buffer of a closed document holds
Documents ==
    {sink[i].data : i \in {k \in 1..Len(sink) : sink[k].err = Nil /\ IsDocument(sink[k].data)}}
    \cup (IF f.state = 3 /\ f.err = Nil /\ IsDocument(f.buffer) THEN {f.buffer} ELSE {})

\* the places of the header of object k in a stream
HeadersOf(doc, k) == {p \in 1..Len(doc) : doc[p] = Tk("obj", <<k>>, "")}

\* the documents serialized so far
Serializations(h) == {i \in 1..Len(h.log) : h.log[i].ev = "enddoc"}

\* C11: in every serialized document object 1 is the pages root, object 2
\* is the resource dictionary, and the header of each is written exactly
\* once.
C11_RootAndResourcesOnce ==
    \A doc \in Documents :
        /\ Cardinality(HeadersOf(doc, 1)) = 1
        /\ Cardinality(HeadersOf(doc, 2)) = 1
        /\ \A p \in HeadersOf(doc, 1) : doc[p + 1].op = "/Type /Pages"
        /\ \A p \in HeadersOf(doc, 2) :
              doc[p + 1].op = "<<" /\ doc[p + 2].op = "/ProcSet"

\* C11 for the documents serialized once
C11_OnceWhenSerializedOnce ==
    Cardinality(Serializations(hist)) <= 1 => C11_RootAndResourcesOnce

\* a page was added to a closed document and the document closed again:
\* the output buffer holds two pages roots
C11_TwoPagesRoots ==
    /\ hist.op = "Close" /\ f.state = 3 /\ f.err = Nil
    /\ Cardinality(Serializations(hist)) = 2
    /\ Cardinality(HeadersOf(f.buffer, 1)) = 2
    /\ Cardinality(HeadersOf(f.buffer, 2)) = 2

\* a document with a font, an image and a page, serialized once
C11_FontImagePage ==
    /\ f.state = 3 /\ f.err = Nil /\ Cardinality(Serializations(hist)) = 1
    /\ DOMAIN f.fonts # {} /\ DOMAIN f.images # {} /\ f.page >= 1
    /\ f.buffer # <<>>


\* everything written to the output so far: what the writer received, then
\* what the output buffer holds
RECURSIVE Delivered(_)
Delivered(sk) == IF sk = <<>> THEN <<>> ELSE Head(sk).data \o Delivered(Tail(sk))

Written == Delivered(sink) \o f.buffer

IsHeader(line) == line.op = "obj"

\* a header written by newobj: the numbers 1 and 2 are reserved by New
IsNewobjHeader(line) == line.op = "obj" /\ line.n[1] > 2

\* C12: the k-th object header of a serialized document carries the object
\* number k.
C12_HeadersNumberedInOrder ==
    \A doc \in Documents :
        LET hs == SelectSeq(doc, IsHeader)
        IN  \A k \in 1..Len(hs) : hs[k].n[1] = k

\* C12 as amended: the k-th header that newobj writes carries the number
\* k + 2, the last one the object counter; the offsets recorded for the
\* objects whose headers the output buffer holds increase with the object
\* number; and the headers of objects 1 and 2 follow the header of the
\* first page object.
C12_SequentialFromThree ==
    LET hs == SelectSeq(Written, IsNewobjHeader)
    IN  /\ Len(hs) = f.n - 2
        /\ \A k \in 1..Len(hs) : hs[k].n[1] = k + 2
        /\ \A j \in 3..f.n : \A k \in 3..f.n :
              (j < k /\ HeadersOf(f.buffer, j) # {} /\ HeadersOf(f.buffer, k) # {})
                 => f.offsets[j + 1] < f.offsets[k + 1]
        /\ \A doc \in Documents : \A p \in HeadersOf(doc, 1) \cup HeadersOf(doc, 2) :
              \E q \in 1..(p - 1) : IsNewobjHeader(doc[q])

\* a document with a page, an embedded font and an image was serialized:
\* the header of object 1 lies between those of the objects 4 and 5, the
\* header of object 2 between those of the objects 9 and 10
C12_ElevenObjects ==
    /\ f.state = 3 /\ f.err = Nil /\ f.n = 11 /\ IsDocument(f.buffer)
    /\ "calligra" \in DOMAIN f.fonts /\ DOMAIN f.images # {}
    /\ f.offsets[5] < f.offsets[2] /\ f.offsets[2] < f.offsets[6]
    /\ f.offsets[10] < f.offsets[3] /\ f.offsets[3] < f.offsets[11]


\* the object numbers a stream refers to by /Parent, /Resources, /Contents,
\* /Widths, /FontDescriptor, /Encoding, /SMask and /Dest
References(doc) ==
    {doc[p].n[1] : p \in {q \in 1..Len(doc) :
        \/ doc[q].op \in {"/Parent", "/Resources", "/Contents", "/Widths", "/SMask"}
        \/ doc[q].op = "/FontDescriptor" /\ doc[q].s = ""
        \/ doc[q].op = "/Encoding" /\ doc[q].n # <<>>}}
    \cup UNION {{doc[p].d[q].n[5] : q \in {r \in 1..Len(doc[p].d) : doc[p].d[r].op = "/Dest"}} :
                   p \in {q \in 1..Len(doc) : doc[q].op = "/Annots"}}

\* the place of the xref keyword of a stream that holds one
XrefAt(doc) == CHOOSE p \in 1..Len(doc) : doc[p].op = "xref"

\* the number of objects the cross-reference section of a stream lists
XrefCount(doc) == doc[XrefAt(doc) + 1].n[1] - 1

\* the offset the cross-reference section of a stream records for object j
XrefRecord(doc, j) == doc[XrefAt(doc) + 2 + j].n[1]

\* the output buffer holds one document, serialized once and complete
OneDocument ==
    /\ f.state = 3 /\ f.err = Nil /\ IsDocument(f.buffer)
    /\ Cardinality(Serializations(hist)) = 1 /\ sink = <<>>
    /\ f.buffer[Len(f.buffer)].op = "%%EOF"

\* reference r of a stream resolves: the object was reserved, has a
\* cross-reference record, and the record holds the offset of its header
Resolves(doc, r) ==
    /\ r \in 1..XrefCount(doc)
    /\ XrefRecord(doc, r) + 1 \in 1..Len(doc)
    /\ doc[XrefRecord(doc, r) + 1] = Tk("obj", <<r>>, "")

\* C13: in a serialized document every object number referred to by
\* /Contents, /Parent, /Resources, /Widths, /FontDescriptor, /Encoding,
\* /SMask or /Dest lies in 1..n, has a cross-reference record, and the
\* record holds the offset at which the header of that object was written.
C13_ReferencesResolve ==
    OneDocument => \A r \in References(f.buffer) : Resolves(f.buffer, r)

\* C13 without the destinations of the internal links
C13_ResolveButDest ==
    OneDocument =>
        \A r \in References(f.buffer) :
            Resolves(f.buffer, r) \/ (r > 2 /\ r % 2 = 1 /\ r > 2 * f.page + 1)

\* a link on page 1 of a one-page document has page 3 for its destination:
\* the annotation refers to object 7 and the document has six objects
C13_DestBeyondObjects ==
    /\ OneDocument /\ f.page = 1 /\ f.n = 6
    /\ Len(f.links) = 1 /\ f.links[1].page = 3
    /\ 7 \in References(f.buffer)

\* a link that was never given a destination refers to the pages root
C13_DestUnset ==
    /\ OneDocument /\ f.page = 1
    /\ Len(f.links) = 1 /\ f.links[1].page = 0
    /\ Len(f.pageLinks[1]) = 1
    /\ \A r \in References(f.buffer) : Resolves(f.buffer, r)


\* the buffers written so far: each delivery to the writer, then the output
\* buffer
Segments == [k \in 1..(Len(sink) + 1) |-> IF k <= Len(sink) THEN sink[k].data ELSE f.buffer]

\* the places of the header of object j before place x of a stream
HeadersBefore(doc, j, x) == {p \in HeadersOf(doc, j) : p < x}

\* the cross-reference section and the trailer at place x of segment k, for
\* n objects
XrefSection(k, x, n) ==
    LET doc == Segments[k]
        t == x + 2 + n
    IN  /\ n >= 2 /\ Len(doc) >= t + 8
        /\ \A p \in 1..(x - 1) : IsHeader(doc[p]) => doc[p].n[1] <= n
        /\ doc[x + 2] = Tk("f", <<0, 65535>>, "")
        /\ \A j \in 1..n :
              /\ doc[x + 2 + j].op = "n"
              /\ IF HeadersBefore(doc, j, x) # {}
                 THEN \E p \in HeadersBefore(doc, j, x) :
                         /\ \A q \in HeadersBefore(doc, j, x) : q <= p
                         /\ doc[x + 2 + j].n[1] = p - 1
                 ELSE \E e \in 1..(k - 1) :
                         (doc[x + 2 + j].n[1] + 1) \in HeadersOf(Segments[e], j)
        /\ doc[t + 1].op = "trailer" /\ doc[t + 2].op = "<<"
        /\ doc[t + 3] = Tk("/Size", <<n + 1>>, "")
        /\ doc[t + 4] = Tk("/Root", <<n>>, "")
        /\ doc[t + 5] = Tk("/Info", <<n - 1>>, "")
        /\ doc[t + 6].op = ">>" /\ doc[t + 7].op = "startxref"
        /\ doc[t + 8] = Tk("offset", <<x - 1>>, "")
        /\ \E p \in HeadersBefore(doc, n, x) : doc[p + 2].op = "/Type /Catalog"
        /\ \E p \in HeadersBefore(doc, n - 1, x) : doc[p + 2].op = "/Producer"

\* C14: a cross-reference section is the free-list head and one record for
\* each object 1..n in ascending order, record j holding the length of the
\* output buffer when the header of object j was written; the trailer has
\* /Size n + 1, /Root n (the catalog) and /Info n - 1, and startxref is the
\* length of the output buffer when the xref keyword was written.
C14_XrefAndTrailer ==
    \A k \in 1..(Len(sink) + 1) :
        \A x \in {p \in 1..Len(Segments[k]) : Segments[k][p].op = "xref"} :
            /\ Len(Segments[k]) > x /\ Segments[k][x + 1].op = "0"
            /\ XrefSection(k, x, Segments[k][x + 1].n[1] - 1)

\* the writer received a document of eleven objects and its
\* cross-reference section
C14_XrefOfElevenObjects ==
    /\ hist.op = "Output" /\ Len(sink) = 1 /\ sink[1].err = Nil
    /\ IsDocument(sink[1].data) /\ XrefCount(sink[1].data) = 11
    /\ f.n = 11 /\ f.buffer = <<>>


-----------------------------------------------------------------------------
(* The resource tables.                                                    *)

\* the number of image placements in a buffer
Placements(buf) == Cardinality({p \in 1..Len(buf) : buf[p].op = "cm Do"})

RECURSIVE PlacementsOn(_, _)
PlacementsOn(pages, n) ==
    IF n = 0 THEN 0 ELSE Placements(pages[n]) + PlacementsOn(pages, n - 1)

\* the image placements written so far to the pages and the output buffer
AllPlacements(g) == PlacementsOn(g.pages, Len(g.pages)) + Placements(g.buffer)

\* the index is unique among the entries of the image table
ImageIndexUnique(g) ==
    /\ \A k \in DOMAIN g.images : g.images[k].i \in 1..Cardinality(DOMAIN g.images)
    /\ \A j \in DOMAIN g.images : \A k \in DOMAIN g.images :
          g.images[j].i = g.images[k].i => j = k

\* an entry of the image table stays as the first call left it
ImageKept(g, g1) ==
    \A k \in DOMAIN g.images :
        /\ k \in DOMAIN g1.images
        /\ g1.images[k].i = g.images[k].i
        /\ g1.images[k].w = g.images[k].w /\ g1.images[k].h = g.images[k].h

\* the line an Image call of the history wrote
PlacedLine(g, e) == IF e.onpage THEN g.pages[e.page][e.pos] ELSE g.buffer[e.pos]

\* the history entries of the Image calls that drew
Drew(h) == {j \in 1..Len(h.imgs) : h.imgs[j].drew}

\* the objects of stream new that are images: the places of their headers
ImageObjects(new) ==
    {p \in 1..Len(new) : IsHeader(new[p]) /\ p < Len(new) /\ new[p + 1].op = "/Type /XObject"}

\* stream new holds one image object and one /I entry for each entry of
\* the image table, and its other image objects are the soft masks that
\* follow the images with an alpha channel
OneObjectPerImage(g, new) ==
    /\ \A k \in DOMAIN g.images :
          /\ Cardinality({p \in ImageObjects(new) : new[p].n[1] = g.images[k].n}) = 1
          /\ Cardinality({p \in 1..Len(new) :
                             new[p] = Tk("/I", <<g.images[k].i, g.images[k].n>>, "")}) = 1
    /\ \A j \in DOMAIN g.images : \A k \in DOMAIN g.images :
          g.images[j].n = g.images[k].n => j = k
    /\ \A p \in ImageObjects(new) :
          \/ \E k \in DOMAIN g.images : new[p].n[1] = g.images[k].n
          \/ \E k \in DOMAIN g.images : g.images[k].alpha /\ new[p].n[1] = g.images[k].n + 1
    /\ Cardinality({p \in 1..Len(new) : new[p].op = "/I"}) = Cardinality(DOMAIN g.images)

\* C15: each image that parsed has one entry in the image table, with an
\* index that is unique and never changes; every Image call that returns
\* without error writes one placement "/I<i> Do" with that index; and a
\* serialization writes exactly one image object for each entry.
C15_ImageRegisteredOnce ==
    [][/\ ImageIndexUnique(f') /\ ImageKept(f, f')
       /\ hist'.op = "Image" =>
             /\ f.err = Nil /\ ~f.panicked =>
                   Cardinality({j \in 1..Len(hist'.imgs) : hist'.imgs[j].depth = 0}) = 1
             /\ \A j \in 1..Len(hist'.imgs) :
                   IF hist'.imgs[j].drew
                   THEN /\ hist'.imgs[j].file \in DOMAIN f'.images
                        /\ f'.images[hist'.imgs[j].file].i = hist'.imgs[j].i
                        /\ PlacedLine(f', hist'.imgs[j]).op = "cm Do"
                        /\ PlacedLine(f', hist'.imgs[j]).n[5] = hist'.imgs[j].i
                   ELSE f'.err # Nil \/ f'.panicked
             /\ AllPlacements(f') = AllPlacements(f) + Cardinality(Drew(hist'))
       /\ Cardinality(Serializations(hist')) > Cardinality(Serializations(hist)) =>
             OneObjectPerImage(f', SubSeq(Delivered(sink') \o f'.buffer, Len(Written) + 1,
                                          Len(Delivered(sink') \o f'.buffer)))]_vars

\* the same image was placed on two pages and the document serialized: one
\* entry, one image object, a placement with index 1 on each page
C15_OneImageTwoPages ==
    /\ f.state = 3 /\ f.err = Nil /\ f.page = 2 /\ DOMAIN f.images = {"tall.png"}
    /\ f.images["tall.png"].i = 1
    /\ \A n \in 1..2 : \E p \in 1..Len(f.pages[n]) :
          f.pages[n][p].op = "cm Do" /\ f.pages[n][p].n[5] = 1
    /\ Cardinality(ImageObjects(f.buffer)) = 1

\* the font-selection operators of the page buffers: page and place
FontSelections(g) ==
    UNION {{<<n, p>> : p \in {q \in 1..Len(g.pages[n]) : g.pages[n][q].op = "BT Tf ET"}} :
             n \in 1..Len(g.pages)}

\* the indices of the registered fonts
FontIndices(g) == {g.fonts[k].I : k \in DOMAIN g.fonts}

\* C16: every font index in a font-selection operator "/F<i> ... Tf" of
\* a page buffer is at least 1 and the index of a font of the font
\* table, also when SetFontSize is called on a page before any font was
\* selected.
C16_FontIndexRegistered ==
    \A pp \in FontSelections(f) :
        /\ f.pages[pp[1]][pp[2]].n[1] >= 1
        /\ f.pages[pp[1]][pp[2]].n[1] \in FontIndices(f)

\* every font index in a font-selection operator is a registered font's,
\* or it is 0, the index of the zero font definition
C16_RegisteredOrNoFont ==
    \A pp \in FontSelections(f) :
        \/ f.pages[pp[1]][pp[2]].n[1] \in FontIndices(f)
        \/ f.pages[pp[1]][pp[2]].n[1] = 0

\* SetFontSize on the first page, no font selected: the page selects /F0
C16_SizeBeforeFont ==
    /\ hist.op = "SetFontSize" /\ f.page = 1 /\ f.err = Nil /\ f.fontFamily = ""
    /\ f.pages[1][Len(f.pages[1])] = Tk("BT Tf ET", <<0, 10000>>, "")

\* the differences of the font definition files the application adds
DiffsOf(fams) == {FontDefFiles[fam \o ".json"].Diff : fam \in fams} \ {""}

\* the Encoding objects of stream new: the places of their headers
EncodingObjects(new) ==
    {p \in 1..Len(new) : IsHeader(new[p]) /\ p < Len(new) /\ new[p + 1].op = "/Differences"}

\* the fonts of stream new with a difference: the places of their /Encoding
\* references to an object
EncodingReferences(new) ==
    {p \in 1..Len(new) : new[p].op = "/Encoding" /\ new[p].n # <<>>}

\* C17: AddFont interns the encoding differences by string equality: the
\* diffs table holds each distinct non-empty difference of the registered
\* fonts exactly once, fonts with equal differences have the same DiffN, a
\* font with a new difference is registered without failure, and at
\* finalize the /Encoding reference nf + DiffN of such a font names the
\* Encoding object written for its own difference.
C17_DiffsInterned ==
    [][/\ \A j \in 1..Len(f'.diffs) : \A k \in 1..Len(f'.diffs) :
             f'.diffs[j] # "" /\ (f'.diffs[j] = f'.diffs[k] => j = k)
       /\ {f'.diffs[j] : j \in 1..Len(f'.diffs)}
              = {f'.fonts[k].Diff : k \in DOMAIN f'.fonts} \ {""}
       /\ \A j \in DOMAIN f'.fonts : \A k \in DOMAIN f'.fonts :
             f'.fonts[j].Diff # "" /\ f'.fonts[j].Diff = f'.fonts[k].Diff
                 => f'.fonts[j].DiffN = f'.fonts[k].DiffN
       /\ hist'.op = "AddFont" => ~f'.panicked
       /\ Cardinality(Serializations(hist')) > Cardinality(Serializations(hist)) =>
             \A k \in {j \in DOMAIN f'.fonts : f'.fonts[j].Diff # ""} :
                 \E p \in EncodingReferences(f'.buffer) : \E q \in EncodingObjects(f'.buffer) :
                     /\ f'.buffer[p].n[1] = f'.buffer[q].n[1]
                     /\ f'.buffer[q + 1].s = f'.fonts[k].Diff]_vars

\* no font with a difference is ever registered: the diffs table stays
\* empty and AddFont of such a font ends the program
C17_NoDifferenceRegistered ==
    /\ f.diffs = <<>>
    /\ \A k \in DOMAIN f.fonts : f.fonts[k].Diff = "" /\ f.fonts[k].DiffN = 0
    /\ f.state = 3 => EncodingObjects(f.buffer) = {} /\ EncodingReferences(f.buffer) = {}

\* AddFont of the font with the difference "128 /Euro" panicked
C17_AddFontPanicked ==
    /\ hist.op = "AddFont" /\ f.panicked /\ f.err = Nil
    /\ "euro" \in app.fams /\ "euro" \notin DOMAIN f.fonts /\ f.diffs = <<>>


-----------------------------------------------------------------------------
(* Text layout.                                                            *)

\* the lines of the latest call that MultiCell handed to CellFormat
MultiCellLines == {k \in 1..Len(hist.lines) : hist.lines[k].op = "MultiCell"}

\* the summed character width of a line is at most the maximum width
\* wmax = wnum / fs of its call
WithinWidth(ln) == SumCw(ln.font, ln.txt) * ln.fs <= ln.wnum

\* C18: for every input string and every maximum width W, each line
\* MultiCell emits has a summed character width of at most W, except a
\* line of a single character that alone is wider than W.
C18_LinesWithinWidth ==
    \A k \in MultiCellLines :
        hist.lines[k].fs > 0 =>
            \/ WithinWidth(hist.lines[k])
            \/ Len(hist.lines[k].txt) = 1

\* each line MultiCell emits is at most W wide, or is a single character
\* wider than W, or is empty while W is negative
C18_LinesWithinWidthOrEmpty ==
    \A k \in MultiCellLines :
        hist.lines[k].fs > 0 =>
            \/ WithinWidth(hist.lines[k])
            \/ Len(hist.lines[k].txt) = 1
            \/ hist.lines[k].txt = <<>> /\ hist.lines[k].wnum < 0

\* MultiCell forced a letter wider than the cell through and emitted a
\* line of at least one character that fits
C18_SoftAndForcedLines ==
    /\ hist.op = "MultiCell" /\ f.err = Nil /\ f.fontFamily # ""
    /\ \E k \in MultiCellLines :
          /\ hist.lines[k].kind = "hard" /\ hist.lines[k].txt = <<"a">>
          /\ ~WithinWidth(hist.lines[k])
    /\ \E k \in MultiCellLines :
          /\ hist.lines[k].kind \in {"soft", "last"} /\ Len(hist.lines[k].txt) >= 1
          /\ WithinWidth(hist.lines[k])

\* the loop ended because i reached the end of the text, and each pass
\* advanced i or moved the line start j forward, j never moving back nor
\* past i
Progressed(lp) ==
    /\ lp.scan # <<>>
    /\ lp.scan[Len(lp.scan)][1] = lp.nb
    /\ \A p \in 1..(Len(lp.scan) - 1) :
          /\ lp.scan[p][1] < lp.nb
          /\ lp.scan[p + 1][1] > lp.scan[p][1] \/ lp.scan[p + 1][2] > lp.scan[p][2]
          /\ lp.scan[p + 1][2] >= lp.scan[p][2]
          /\ lp.scan[p + 1][2] <= lp.scan[p + 1][1]

\* C19: MultiCell and Write terminate for every text and every cell
\* width, also for a text without blanks and a maximum width that is
\* zero or negative: every pass of the loop advances the scan index or
\* moves the line start forward, and a hard break lets at least one
\* character through.
C19_LoopsTerminate ==
    /\ \A k \in 1..Len(hist.loops) : Progressed(hist.loops[k])
    /\ \A k \in 1..Len(hist.lines) :
          hist.lines[k].kind = "hard" => Len(hist.lines[k].txt) >= 1

\* MultiCell laid out "aaa" in a cell narrower than its margins: three
\* hard breaks of one letter each, in three passes
C19_NarrowerThanALetter ==
    /\ hist.op = "MultiCell" /\ f.err = Nil /\ f.fontFamily # ""
    /\ app.txt = <<"a", "a", "a">> /\ app.w = 1000
    /\ Len(hist.loops) = 1 /\ hist.loops[1].scan = <<<<0, 0>>, <<1, 1>>, <<2, 2>>, <<3, 3>>>>
    /\ \A k \in 1..3 : hist.lines[k].kind = "hard" /\ hist.lines[k].txt = <<"a">>

\* Write met a text without blanks behind the left margin: it moved to
\* the next line, broke the text after two letters and ended
C19_WriteMovedToNextLine ==
    /\ hist.op = "Write" /\ f.err = Nil /\ f.fontFamily # ""
    /\ app.txt = <<"a", "a", "a">>
    /\ Len(hist.loops) = 1 /\ hist.loops[1].op = "write"
    /\ hist.loops[1].scan = <<<<0, 0>>, <<1, 0>>, <<2, 0>>, <<2, 2>>, <<3, 2>>>>

\* the lines of the latest call that MultiCell broke at a blank with
\* alignment J
JustifiedLines ==
    {k \in MultiCellLines : hist.lines[k].kind = "soft" /\ hist.lines[k].align = "J"}

\* the number of blanks of a text
Blanks(txt) == Cardinality({p \in 1..Len(txt) : txt[p] = " "})

\* the greatest common divisor of two naturals
RECURSIVE GCD(_, _)
GCD(a, b) == IF b = 0 THEN a ELSE GCD(b, a % b)

\* the fraction n / d in lowest terms, for n >= 0 and d > 0
Lowest(n, d) == <<n \div GCD(n, d), d \div GCD(n, d)>>

\* the operator written for line ln is a Tw whose value num / den * mul is
\* (wmax - ls) / 1000 * fontSize / (ns - 1) when ns > 1 and zero otherwise
SpacingSet(ln) ==
    LET tw == PlacedLine(f, ln.tw)
    IN  /\ tw.op = "Tw" /\ tw.s = "%.3f" /\ tw.n[1] >= 0 /\ tw.n[2] > 0
        /\ IF ln.ns > 1
           THEN /\ ln.wnum - ln.ls * ln.fs >= 0
                /\ Lowest(tw.n[1], tw.n[2])
                       = Lowest(ln.wnum - ln.ls * ln.fs, ln.fs * 1000 * (ln.ns - 1))
                /\ tw.n[3] = ln.fontSize
           ELSE tw.n[1] = 0

\* the glyph widths of the line plus the word spacing times the blanks of
\* the line make the maximum line width W = wnum / 1000; the font size is
\* a whole number of points
FillsWidth(ln) ==
    LET tw == PlacedLine(f, ln.tw)
        ws == Lowest(tw.n[1], tw.n[2])
    IN  /\ ln.fontSize % 1000 = 0
        /\ SumCw(ln.font, ln.txt) * (ln.fontSize \div 1000) * ws[2]
               + ws[1] * tw.n[3] * Blanks(ln.txt) = (ln.wnum \div 1000) * ws[2]

\* the Tw operator of line ln precedes the text of its cell: in the same
\* stream, or in the stream of the page that the cell's page break left
\* and then, when the spacing is positive, again before the text
SpacingBeforeText(ln) ==
    ln.cell # 0 /\ hist.cells[ln.cell].drew /\ ln.txt # <<>> =>
        LET c == hist.cells[ln.cell]
            text == [page |-> c.page1, pos |-> c.len1 + 1, onpage |-> c.state1 = 2]
            tw == PlacedLine(f, ln.tw)
        IN  /\ PlacedLine(f, text).op = "cell"
            /\ IF ln.tw.onpage = text.onpage /\ (text.onpage => ln.tw.page = text.page)
               THEN ln.tw.pos < text.pos
               ELSE /\ c.napf > 0
                    /\ tw.n[1] > 0 /\ tw.n[3] > 0 =>
                          \E q \in 1..c.len1 :
                              PlacedLine(f, [text EXCEPT !.pos = q]) = tw

C20_OneBlankLine ==
    /\ hist.op = "MultiCell" /\ f.err = Nil /\ f.fontFamily # ""
    /\ \E k \in JustifiedLines :
          /\ hist.lines[k].ns = 1 /\ hist.lines[k].txt = <<"a">>
          /\ ~FillsWidth(hist.lines[k])

\* the word spacing ws is zero
WsZero(ws) == ws.den > 0 /\ (ws.num = 0 \/ ws.mul = 0)

\* the places of the Tw operators of a buffer
TwPlaces(buf) == {p \in 1..Len(buf) : buf[p].op = "Tw"}

\* the last Tw operator of the buffer, if there is one, sets a zero word
\* spacing
LastTwZero(buf) ==
    \A p \in TwPlaces(buf) :
        (\A q \in TwPlaces(buf) : q <= p) =>
            buf[p].n[2] > 0 /\ (buf[p].n[1] = 0 \/ buf[p].n[3] = 0)

TrailingFragments ==
    {k \in 1..Len(hist.lines) :
        /\ k = Len(hist.lines)
        /\ hist.lines[k].op = "write" /\ hist.lines[k].kind = "last"
        /\ hist.lines[k].cell > 0}

\* the measured width of a line: the sum of its character widths times
\* fontSize / 1000
Measured(ln) == (SumCw(ln.font, ln.txt) * ln.fontSize) \div 1000

\* the text operator most recently written to the current page
LastText(g) == g.pages[g.page][Len(g.pages[g.page])].d[1]

\* the cursor is at the end of the fragment: x is the x at which the cell
\* was drawn plus the measured width, and y is the y of the text that was
\* drawn
AtEndOf(g, ln, c) ==
    /\ g.x = c.xdraw + Measured(ln)
    /\ g.state = 2 /\ Len(g.pages[g.page]) > 0
    /\ g.pages[g.page][Len(g.pages[g.page])].op = "cell"
    /\ LastText(g).op = "BT Td Tj ET" /\ LastText(g).t = Escape(ln.txt)
    /\ LastText(g).n[2] = 10 * g.h - (10 * g.y + 5 * c.h + 3 * g.fontSize)

\* C22: after Write returns for a text whose trailing fragment is not
\* empty, the cursor is immediately after the text: x is the x at which
\* the trailing fragment started plus its measured width, and y is the line
\* of that fragment.
C22_CursorAfterText ==
    hist.op = "Write" /\ f.err = Nil /\ f.state = 2 =>
        \A k \in TrailingFragments :
            AtEndOf(f, hist.lines[k], hist.cells[hist.lines[k].cell])

\* the same for a trailing fragment whose measured width is not zero
C22_CursorAfterMeasuredText ==
    hist.op = "Write" /\ f.err = Nil /\ f.state = 2 =>
        \A k \in TrailingFragments :
            Measured(hist.lines[k]) # 0 =>
                AtEndOf(f, hist.lines[k], hist.cells[hist.lines[k].cell])

\* Write drew the letter "a" on a page before any font was selected: the
\* fragment measures 0 and the cursor is at the right margin
C22_CursorAtRightMargin ==
    /\ hist.op = "Write" /\ f.err = Nil /\ f.state = 2 /\ f.fontFamily = ""
    /\ app.txt = <<"a">>
    /\ \E k \in TrailingFragments :
          /\ Measured(hist.lines[k]) = 0
          /\ hist.cells[hist.lines[k].cell].xdraw = f.lMargin
          /\ f.x = f.w - f.rMargin /\ f.x > f.lMargin

\* Write drew a trailing fragment of two letters on the line after a soft
\* break and left the cursor behind it
C22_CursorAfterLetters ==
    /\ hist.op = "Write" /\ f.err = Nil /\ f.state = 2 /\ f.fontFamily # ""
    /\ \E k \in TrailingFragments :
          /\ Len(hist.lines[k].txt) = 2 /\ Measured(hist.lines[k]) > 0
          /\ f.x = f.lMargin + Measured(hist.lines[k])

-----------------------------------------------------------------------------
(* Images with an alpha channel.                                           *)

\* the payloads of the IDAT chunks of a file, in stream order
RECURSIVE IdatOf(_)
IdatOf(chunks) ==
    IF chunks = <<>> THEN <<>>
    ELSE (IF Head(chunks).tp = "IDAT" THEN Head(chunks).data ELSE <<>>) \o IdatOf(Tail(chunks))

\* the rows of w pixels that interleave the colour samples of stream color
\* (c samples a pixel) with the alpha samples of stream alpha, pixel by
\* pixel, after the filter-type byte of the colour stream
Interleaved(color, alpha, c, w, h) ==
    [p \in 1..(h * (2 + c * w + w)) |->
        LET row == (p - 1) \div (2 + c * w + w)
            off == (p - 1) % (2 + c * w + w)
            px  == (off - 1) \div (c + 1)
            smp == (off - 1) % (c + 1)
        IN  IF off = 0 THEN color[row * (1 + c * w) + 1]
            ELSE IF off = 1 + (c + 1) * w THEN alpha[row * (1 + w) + 1]
            ELSE IF smp < c THEN color[row * (1 + c * w) + 1 + px * c + smp + 1]
            ELSE alpha[row * (1 + w) + 1 + px + 1]]

\* the rows of the inflated data raw, each followed by its filter-type byte
\* once more
RowsOf(raw, c, w, h) ==
    [p \in 1..(h * (2 + c * w + w)) |->
        LET row == (p - 1) \div (2 + c * w + w)
            off == (p - 1) % (2 + c * w + w)
        IN  IF off = 1 + (c + 1) * w THEN raw[row * (1 + (c + 1) * w) + 1]
            ELSE raw[row * (1 + (c + 1) * w) + off + 1]]

\* the colour and alpha streams of table entry k hold the rows of the file
SplitLossless(g, k) ==
    LET png   == Disk[k]
        c     == IF png.ct = 4 THEN 1 ELSE 3
        raw   == Inflate(IdatOf(png.chunks)).data
        color == Inflate(g.images[k].data)
        alpha == Inflate(g.images[k].smask)
    IN  /\ color.ok /\ alpha.ok
        /\ Len(color.data) = png.h * (1 + c * png.w)
        /\ Len(alpha.data) = png.h * (1 + png.w)
        /\ Interleaved(color.data, alpha.data, c, png.w, png.h) = RowsOf(raw, c, png.w, png.h)

\* C23: splitting the inflated data of a PNG of colour type 6 or 4 into a
\* colour stream and an alpha stream is lossless: for every row both
\* streams start with the row's filter-type byte, and interleaving their
\* colour and alpha samples pixel by pixel gives the row back, for every
\* width and height.
C23_AlphaSplitLossless ==
    \A k \in DOMAIN f.images :
        f.images[k].alpha /\ f.images[k].data # <<>> => SplitLossless(f, k)

\* Image registered an RGBA file of two rows of two pixels with the bytes
\* 1 to 18: the alpha stream holds the filter-type bytes 1 and 10 and every
\* fourth sample
C23_TwoByTwoSplit ==
    /\ hist.op = "Image" /\ f.err = Nil /\ ~f.panicked
    /\ "pixels.png" \in DOMAIN f.images
    /\ f.images["pixels.png"].data = Deflate(<<1, 2, 3, 4, 6, 7, 8, 10, 11, 12, 13, 15, 16, 17>>)
    /\ f.images["pixels.png"].smask = Deflate(<<1, 5, 9, 10, 14, 18>>)

-----------------------------------------------------------------------------
(* Images that do not parse.                                               *)

\* the file is a PNG that parsepngstream rejects by its signature or its
\* header chunk, or is not there, or is of no image type
Unusable(file) ==
    \/ Extension(file) \notin {"png", "jpg"}
    \/ file \notin DOMAIN Disk
    \/ /\ Extension(file) = "png"
       /\ file \in DOMAIN Disk
       /\ \/ ~Disk[file].sig \/ Disk[file].kind # "png"
          \/ Disk[file].bpc > 8
          \/ Disk[file].ct \notin {0, 2, 3, 4, 6}
          \/ Disk[file].comp # 0 \/ Disk[file].filt # 0 \/ Disk[file].ilace # 0

\* C24: an Image call on a PNG whose signature is wrong, whose bit depth
\* exceeds 8, whose colour type is not 0, 2, 3, 4 or 6, whose compression
\* or filter method is not zero or whose interlace flag is not zero, on a
\* file of an unsupported type or on a file that cannot be read, latches
\* an error, adds no entry to the image table, appends nothing to the page
\* buffer and leaves the cursor and the page count unchanged.
C24_RejectedImageChangesNothing ==
    [][hist'.op = "Image" =>
          /\ f.err # Nil => f' = f
          /\ \A k \in 1..Len(hist'.imgs) :
                Unusable(hist'.imgs[k].file) =>
                    /\ f'.err # Nil
                    /\ f'.images = f.images
                    /\ f'.pages = f.pages /\ f'.buffer = f.buffer
                    /\ f'.x = f.x /\ f'.y = f.y
                    /\ f'.page = f.page /\ f'.state = f.state]_vars

\* Image placed logo.png on page 1 and then rejected the interlaced file:
\* the image table holds logo.png alone and the page its one placement
C24_InterlacedRejected ==
    /\ hist.op = "Image" /\ f.err = "Interlacing not supported in PNG buffer"
    /\ Len(hist.imgs) = 1 /\ hist.imgs[1].file = "ilace.png"
    /\ f.page = 1 /\ DOMAIN f.images = {"logo.png"}
    /\ Placements(f.pages[1]) = 1

-----------------------------------------------------------------------------
(* The numbers of the page objects.                                        *)

\* the places of the page objects of a stream, and the rank of one of them
\* in stream order
PageObjects(doc) == {p \in 2..Len(doc) : doc[p].op = "/Type /Page"}

PageRank(doc, p) == Cardinality({q \in PageObjects(doc) : q <= p})

\* the place of the /Contents line of the page object at p
ContentsOf(doc, p) ==
    CHOOSE q \in p..Len(doc) :
        doc[q].op = "/Contents" /\ \A r \in p..(q - 1) : doc[r].op # "/Contents"

\* the k-th page object of the stream has the number 2k + 1, refers to
\* 2k + 2 for its contents, and the next object of the stream is 2k + 2
PagesNumbered(doc) ==
    \A p \in PageObjects(doc) :
        LET k == PageRank(doc, p)
            q == ContentsOf(doc, p)
        IN  /\ doc[p - 1] = Tk("obj", <<2 * k + 1>>, "")
            /\ doc[q] = Tk("/Contents", <<2 * k + 2>>, "")
            /\ doc[q + 1].op = "endobj"
            /\ doc[q + 2] = Tk("obj", <<2 * k + 2>>, "")

\* the pages root lists 3, 5, ..., 2N + 1 and counts N, the number of page
\* objects
KidsListed(doc) ==
    LET N == Cardinality(PageObjects(doc))
    IN  /\ \E p \in 1..Len(doc) : doc[p].op = "/Kids"
        /\ \A p \in 1..Len(doc) :
              doc[p].op = "/Kids" =>
                  /\ doc[p].n = [i \in 1..N |-> 2 * i + 1]
                  /\ doc[p + 1] = Tk("/Count", <<N>>, "")

\* the annotations of page n of the document just closed: one for each
\* link of the page, an internal link to page p being a /Dest to 2p + 1
DestsNumbered(g, doc) ==
    \A p \in PageObjects(doc) :
        LET n   == PageRank(doc, p)
            pls == g.pageLinks[n]
        IN  n <= g.page /\ Len(pls) > 0 =>
                \E q \in p..ContentsOf(doc, p) :
                    /\ doc[q].op = "/Annots" /\ Len(doc[q].d) = Len(pls)
                    /\ \A j \in 1..Len(pls) :
                          pls[j].link # 0 =>
                              /\ doc[q].d[j].op = "/Dest"
                              /\ doc[q].d[j].n[5] = 2 * g.links[pls[j].link].page + 1

\* C25: for a document of N pages, page k is serialized as object 2k + 1
\* and its /Contents reference is 2k + 2, the number of the object written
\* right after it; the /Kids array of the pages root lists 3, 5, ...,
\* 2N + 1 in page-creation order and /Count is N; an internal link whose
\* target is page p is written as a /Dest to object 2p + 1.
C25_PageObjectNumbers ==
    [][/\ \A doc \in Documents' : PagesNumbered(doc) /\ KidsListed(doc)
       /\ (hist'.op = "Close" /\ f.state # 3 /\ f'.state = 3 /\ f'.err = Nil
              /\ IsDocument(f'.buffer)) =>
             /\ Cardinality(PageObjects(f'.buffer)) = f'.page
             /\ DestsNumbered(f', f'.buffer)]_vars

\* C25 for the documents serialized once
C25_NumbersWhenSerializedOnce ==
    [][Cardinality(Serializations(hist')) <= 1 =>
          /\ \A doc \in Documents' : PagesNumbered(doc) /\ KidsListed(doc)
          /\ (hist'.op = "Close" /\ f.state # 3 /\ f'.state = 3 /\ f'.err = Nil
                 /\ IsDocument(f'.buffer)) =>
                /\ Cardinality(PageObjects(f'.buffer)) = f'.page
                /\ DestsNumbered(f', f'.buffer)]_vars

\* a page was added to a closed document of one page and the document
\* closed again: the second serialization wrote page 1 as object 7 and
\* listed the objects 3 and 5 in its pages root
C25_PagesRenumbered ==
    /\ hist.op = "Close" /\ f.state = 3 /\ f.err = Nil /\ f.page = 2
    /\ Cardinality(Serializations(hist)) = 2
    /\ \E p \in PageObjects(f.buffer) :
          PageRank(f.buffer, p) = 2 /\ f.buffer[p - 1] = Tk("obj", <<7>>, "")
    /\ \E p \in 1..Len(f.buffer) : f.buffer[p] = Tk("/Kids", <<3, 5>>, "")

\* a document of two pages with a link on page 2 was serialized once: the
\* pages are the objects 3 and 5 and the link refers to one of them or to
\* the pages root
C25_TwoPagesAndLink ==
    /\ hist.op = "Close" /\ OneDocument /\ f.page = 2
    /\ Len(f.pageLinks[2]) = 1 /\ f.pageLinks[2][1].link = 1
    /\ \E p \in 1..Len(f.buffer) :
          /\ f.buffer[p].op = "/Annots" /\ f.buffer[p].d[1].op = "/Dest"
          /\ f.buffer[p].d[1].n[5] \in {1, 3, 5}
    /\ \E p \in 1..Len(f.buffer) : f.buffer[p] = Tk("/Kids", <<3, 5>>, "")

-----------------------------------------------------------------------------
(* A text without blanks behind the left margin.                           *)

\* the lines that the latest Write call handed to CellFormat at a break
\* without a blank
HardWriteLines ==
    {k \in 1..Len(hist.lines) : hist.lines[k].op = "write" /\ hist.lines[k].kind = "hard"}

\* the move wrote nothing and called no CellFormat, kept the start and the
\* width of the pending fragment, put the cursor at the left margin one
\* line down and took the width between the margins for the limit
MovedDown(g, mv) ==
    /\ mv.x0 > g.lMargin /\ mv.sep = -1 /\ mv.l0 * mv.fs > mv.wnum0
    /\ mv.cells = 0 /\ mv.from = mv.to
    /\ mv.j1 = mv.j0 /\ mv.l1 = mv.l0 /\ mv.i1 = mv.i0 + 1
    /\ mv.x1 = g.lMargin /\ mv.y1 = mv.y0 + mv.h
    /\ mv.wnum1 = (g.w - g.rMargin - g.lMargin - 2 * g.cMargin) * 1000

\* C26: in Write, when the accumulated width exceeds the limit and no
\* blank was seen since the last break: with the cursor past the left
\* margin no cell is emitted and no character of the pending fragment is
\* consumed or lost, the cursor moves to the left margin one line down and
\* the limit widens to the width between the margins; otherwise, with the
\* cursor at the left margin (not past it), a cell of at least one
\* character is emitted.
C26_OverflowWithoutBlank ==
    hist.op = "Write" /\ f.err = Nil =>
        /\ \A k \in 1..Len(hist.moves) : MovedDown(f, hist.moves[k])
        /\ \A k \in HardWriteLines :
              /\ hist.lines[k].cell > 0
              /\ hist.cells[hist.lines[k].cell].drew
              /\ hist.cells[hist.lines[k].cell].x <= f.lMargin
              /\ Len(hist.lines[k].txt) >= 1

\* Write met "aaa" behind the left margin in a column two letters wide:
\* it moved to the next line at the second letter without a cell, then
\* emitted the cell "aa" at the left margin and the trailing "a"
C26_MovedThenBroke ==
    /\ hist.op = "Write" /\ f.err = Nil /\ f.fontFamily # ""
    /\ app.txt = <<"a", "a", "a">>
    /\ Len(hist.moves) = 1 /\ hist.moves[1].x0 > f.lMargin
    /\ hist.moves[1].i0 = 1 /\ hist.moves[1].lines = 0
    /\ Len(hist.lines) = 2
    /\ hist.lines[1].kind = "hard" /\ hist.lines[1].txt = <<"a", "a">>
    /\ hist.lines[2].kind = "last" /\ hist.lines[2].txt = <<"a">>

-----------------------------------------------------------------------------
(* The borders of a paragraph.                                             *)

\* the sides a border string asks for
Requested(border) ==
    CASE border = "1" -> {"L", "T", "R", "B"}
      [] border = "LTRB" -> {"L", "T", "R", "B"}
      [] border = "L" -> {"L"}
      [] border = "R" -> {"R"}
      [] border = "LR" -> {"L", "R"}
      [] border = "T" -> {"T"}
      [] border = "B" -> {"B"}
      [] border = "TB" -> {"T", "B"}
      [] border = "LT" -> {"L", "T"}
      [] border = "RB" -> {"R", "B"}
      [] OTHER -> {}

\* the edges that the cell of a line drew: the sides of the strokes of
\* the line of output that CellFormat wrote for it, all four for a
\* stroked rectangle, none when the cell wrote nothing
EdgesDrawn(g, c) ==
    LET buf == IF c.state1 = 2 THEN g.pages[c.page1] ELSE g.buffer
    IN  IF c.len2 = c.len1 THEN {}
        ELSE {buf[c.len2].d[q].s :
                 q \in {r \in 1..Len(buf[c.len2].d) : buf[c.len2].d[r].op = "m l S"}}
             \cup (IF \E q \in 1..Len(buf[c.len2].d) :
                         buf[c.len2].d[q].op = "re" /\ buf[c.len2].d[q].s \in {"S", "B"}
                   THEN {"L", "T", "R", "B"} ELSE {})

\* the edges of line k of n lines: left and right as asked, top on the
\* first line, bottom on the last
EdgesOfLine(border, k, n) ==
    (Requested(border) \cap {"L", "R"})
    \cup (IF k = 1 THEN Requested(border) \cap {"T"} ELSE {})
    \cup (IF k = n THEN Requested(border) \cap {"B"} ELSE {})

\* C27: a MultiCell call that emits n >= 1 lines with a border draws the
\* top edge on line 1 only, the bottom edge on line n only and the left
\* and right edges asked for on every line; with the border "1" the first
\* of several lines gets left, right and top, the lines between left and
\* right, the last line left, right and bottom, and a paragraph of one
\* line all four sides; without a border no line draws an edge.
C27_ParagraphBorder ==
    hist.op = "MultiCell" /\ f.err = Nil =>
        /\ Len(hist.lines) >= 1
        /\ \A k \in 1..Len(hist.lines) :
              /\ hist.lines[k].cell = k /\ hist.cells[k].drew
              /\ EdgesDrawn(f, hist.cells[k]) = EdgesOfLine(app.border, k, Len(hist.lines))

\* MultiCell laid out "aaa" with the border "1" in a column one letter
\* wide: three lines with the edges left, right and top, then left and
\* right, then left, right and bottom, the third on the next page
C27_BoxOfThreeLines ==
    /\ hist.op = "MultiCell" /\ f.err = Nil /\ f.fontFamily # ""
    /\ app.border = "1" /\ app.txt = <<"a", "a", "a">>
    /\ Len(hist.lines) = 3 /\ Len(hist.cells) = 3
    /\ EdgesDrawn(f, hist.cells[1]) = {"L", "R", "T"}
    /\ EdgesDrawn(f, hist.cells[2]) = {"L", "R"}
    /\ EdgesDrawn(f, hist.cells[3]) = {"L", "R", "B"}
    /\ hist.cells[3].page1 > hist.cells[1].page1

\* MultiCell laid out the empty text with the border "1": one line with
\* all four sides
C27_BoxOfOneLine ==
    /\ hist.op = "MultiCell" /\ f.err = Nil
    /\ app.border = "1" /\ app.txt = <<>>
    /\ Len(hist.lines) = 1
    /\ EdgesDrawn(f, hist.cells[1]) = {"L", "R", "T", "B"}

-----------------------------------------------------------------------------
(* The chunk scan.                                                         *)

\* the payload of the last PLTE chunk of a file, empty without one
RECURSIVE PaletteOf(_)
PaletteOf(chunks) ==
    IF chunks = <<>> THEN <<>>
    ELSE IF chunks[Len(chunks)].tp = "PLTE" THEN chunks[Len(chunks)].data
    ELSE PaletteOf(SubSeq(chunks, 1, Len(chunks) - 1))

\* the file ends with IEND and holds no other IEND chunk
EndsWithIEND(chunks) ==
    /\ chunks # <<>> /\ chunks[Len(chunks)].tp = "IEND"
    /\ \A p \in 1..(Len(chunks) - 1) : chunks[p].tp # "IEND"

\* the image that Image registered holds the IDAT payloads of its file in
\* stream order and the file's palette
Collected(g, g1, file) ==
    (file \notin DOMAIN g.images /\ file \in DOMAIN g1.images /\ EndsWithIEND(Disk[file].chunks)) =>
        /\ g1.images[file].data = IdatOf(Disk[file].chunks)
        /\ g1.images[file].pal = PaletteOf(Disk[file].chunks)

\* C28: for a PNG chunk sequence that ends with IEND the chunk scan stops
\* at IEND only and collects the payloads of all IDAT chunks before it, in
\* stream order, whatever other chunks, chunks without payload included,
\* lie before or between them; PLTE is taken as the palette and unknown
\* chunks are skipped.
C28_ScanCollectsAllIDAT ==
    [][hist'.op = "Image" => Collected(f, f', "chunks.png")]_vars

\* C28 for the files without an empty chunk before IEND
C28_ScanWithoutEmptyChunk ==
    [][(hist'.op = "Image"
          /\ \A p \in 1..(Len(Disk["chunks.png"].chunks) - 1) :
                Disk["chunks.png"].chunks[p].data # <<>>)
         => Collected(f, f', "chunks.png")]_vars

\* Image registered an RGB file whose chunks are an unknown chunk without
\* payload, an IDAT chunk and IEND: the image has no data
C28_StoppedAtEmptyChunk ==
    /\ hist.op = "Image" /\ f.err = Nil /\ ~f.panicked
    /\ "chunks.png" \in DOMAIN f.images
    /\ Len(Disk["chunks.png"].chunks) = 3
    /\ Disk["chunks.png"].chunks[1] = [tp |-> "tEXt", data |-> <<>>]
    /\ Disk["chunks.png"].chunks[2] = [tp |-> "IDAT", data |-> <<21, 22>>]
    /\ f.images["chunks.png"].data = <<>>

\* Image registered a file with a palette whose chunks are a palette, an
\* IDAT chunk, an unknown chunk and a second IDAT chunk
C28_TwoIDATCollected ==
    /\ hist.op = "Image" /\ f.err = Nil /\ ~f.panicked
    /\ "chunks.png" \in DOMAIN f.images
    /\ f.images["chunks.png"].pal # <<>>
    /\ f.images["chunks.png"].data = <<11, 12, 31, 32>>

-----------------------------------------------------------------------------
(* The pages behind the current page.                                      *)

\* the pages begun so far
Begun(h) == Cardinality({i \in 1..Len(h.log) : h.log[i].ev = "beginpage"})

\* a page buffer after the substitution of the page count for the alias
Substituted(page, alias, nb) ==
    [j \in 1..Len(page) |-> ReplaceInLine(page[j], alias, nb)]

\* C29: the content buffer and the link list of a page change only while
\* the page is the current page: once a later page exists, no call changes
\* the buffer or the links of an earlier page, but for the substitution of
\* the page count for its alias when the document is finalized; pages are
\* numbered from 1, the page number grows by one with each page created,
\* and there is one buffer and one link list for each page.
C29_EarlierPagesKept ==
    [][/\ Len(f'.pages) = f'.page
       /\ DOMAIN f'.pageLinks = 0..f'.page
       /\ f'.page - f.page = Begun(hist') - Begun(hist)
       /\ \A n \in 1..(f.page - 1) :
             /\ f'.pageLinks[n] = f.pageLinks[n]
             /\ \/ f'.pages[n] = f.pages[n]
                \/ /\ hist'.op \in {"Close", "Output"}
                   /\ f.aliasNbPagesStr # ""
                   /\ f'.pages[n] = Substituted(f.pages[n], f.aliasNbPagesStr, f'.page)]_vars

\* the page count was printed on page 1 by its alias, page 2 was added and
\* the document closed: page 1 holds the text "2"
C29_PageCountSubstituted ==
    /\ hist.op = "Close" /\ f.state = 3 /\ f.err = Nil /\ f.page = 2
    /\ f.aliasNbPagesStr = "{nb}"
    /\ \E p \in 1..Len(f.pages[1]) :
          /\ f.pages[1][p].op = "cell"
          /\ f.pages[1][p].d[1].t = <<"2">>

\* a line was drawn on page 2 of a document whose page 1 holds an image
\* and a link
C29_DrewOnSecondPage ==
    /\ hist.op = "Line" /\ f.state = 2 /\ f.page = 2
    /\ Placements(f.pages[1]) = 1 /\ Len(f.pageLinks[1]) = 1
    /\ f.pages[2][Len(f.pages[2])].op = "m l S"

-----------------------------------------------------------------------------
(* The text of the cells.                                                  *)

\* the text that the cell of a line wrote to the output, empty when it
\* wrote no text operator
TextDrawn(g, c) ==
    LET buf == IF c.state1 = 2 THEN g.pages[c.page1] ELSE g.buffer
    IN  IF c.len2 = c.len1 THEN <<>>
        ELSE LET d == buf[c.len2].d
                 T == {q \in 1..Len(d) : d[q].op = "BT Td Tj ET"}
             IN  IF T = {} THEN <<>> ELSE d[CHOOSE q \in T : TRUE].t

\* the texts of the cells of the lines k, k + 1, ... in order, with a blank
\* after the line of a soft break and a line feed after the line of an
\* explicit break
RECURSIVE Rebuilt(_)
Rebuilt(k) ==
    IF k > Len(hist.lines) THEN <<>>
    ELSE TextDrawn(f, hist.cells[hist.lines[k].cell])
         \o (CASE hist.lines[k].kind = "soft" -> <<" ">>
               [] hist.lines[k].kind = "newline" -> <<"\n">>
               [] OTHER -> <<>>)
         \o Rebuilt(k + 1)

NotCR(c) == c # "\r"

\* the input without its carriage returns and, for MultiCell, without one
\* line feed at its end
InputOf(op, txt) ==
    LET s == SelectSeq(txt, NotCR)
    IN  IF op = "MultiCell" /\ s # <<>> /\ s[Len(s)] = "\n"
        THEN SubSeq(s, 1, Len(s) - 1) ELSE s

\* C30: MultiCell and Write neither drop nor duplicate text: the texts of
\* the cells a call emits, in order, with one blank put back for every
\* soft break and one line feed for every explicit break, give the input
\* string (without its carriage returns and, for MultiCell, without one
\* line feed at its end); MultiCell always emits the trailing fragment, and
\* Write emits it whenever it is not empty.
C30_TextConserved ==
    hist.op \in {"MultiCell", "Write"} /\ f.err = Nil =>
        /\ \A k \in 1..Len(hist.lines) :
              hist.lines[k].cell > 0
        /\ Rebuilt(1) = InputOf(hist.op, app.txt)
        /\ hist.op = "MultiCell" =>
              Len(hist.lines) >= 1 /\ hist.lines[Len(hist.lines)].kind = "last"
        /\ hist.op = "Write" =>
              \A k \in 1..Len(hist.lines) :
                  hist.lines[k].kind = "last" =>
                      /\ k = Len(hist.lines)
                      /\ TextDrawn(f, hist.cells[hist.lines[k].cell]) # <<>>

\* MultiCell laid out a text of a letter, a carriage return, a blank and a
\* letter in a column one letter wide: a soft break after the first
\* letter and the second letter as the trailing fragment
C30_SoftBreakAndTrailing ==
    /\ hist.op = "MultiCell" /\ f.err = Nil /\ f.fontFamily # ""
    /\ app.txt = <<"a", "\r", " ">> \/ app.txt = <<"a", " ", "a">>
    /\ Len(hist.lines) = 2
    /\ hist.lines[1].kind = "soft" /\ TextDrawn(f, hist.cells[1]) = <<"a">>
    /\ hist.lines[2].kind = "last"

\* Write laid out a letter, a line feed and a letter: the cell of the
\* explicit break and the trailing fragment
C30_WriteTwoLines ==
    /\ hist.op = "Write" /\ f.err = Nil /\ f.fontFamily # ""
    /\ app.txt = <<"a", "\n", "a">>
    /\ Len(hist.lines) = 2
    /\ hist.lines[1].kind = "newline" /\ TextDrawn(f, hist.cells[1]) = <<"a">>
    /\ hist.lines[2].kind = "last" /\ TextDrawn(f, hist.cells[2]) = <<"a">>

=============================================================================
